---- MODULE Spec2Model ----
(***************************************************************************)
(* A model of the web-summarizer-agent repository: the response model of   *)
(* models.py, the Agent pipeline of agent.py and the topic aggregator of   *)
(* topic_aggregator.py (worker-pool fan-out, master summary, post          *)
(* templates).  Python strings are TLA+ strings; Python's None is the      *)
(* empty tuple and a present optional value v is the one-element tuple     *)
(* <<v>>.                                                                  *)
(***************************************************************************)
EXTENDS Integers, Sequences, FiniteSets, TLC

(***************************************************************************)
(* Bounds of the model.                                                    *)
(***************************************************************************)
\* longest URL list handed to aggregate_topic
MaxUrls == 2
\* largest pool size (max_workers) tried
MaxWorkers == 2
\* the clock advances in steps of TickStep time units, up to MaxTime
TickStep == 30
MaxTime == 90

(***************************************************************************)
(* Python values and string operations.                                    *)
(***************************************************************************)
None == <<>>

Some(v) == <<v>>

Min(a, b) == IF a < b THEN a ELSE b

Max(a, b) == IF a > b THEN a ELSE b

\* s[:k] of Python, for any integer k (a negative k counts from the end)
PyPrefix(s, k) ==
    IF k >= 0 THEN SubSeq(s, 1, Min(k, Len(s)))
    ELSE SubSeq(s, 1, Max(Len(s) + k, 0))

\* seq[:k] of a Python list, k >= 0
PyHead(seq, k) == SubSeq(seq, 1, Min(k, Len(seq)))

\* s * n of Python: n copies of s
RECURSIVE Repeat(_, _)
Repeat(s, n) ==
    IF n <= 0 THEN ""
    ELSE IF n % 2 = 0 THEN LET h == Repeat(s, n \div 2) IN h \o h
    ELSE s \o Repeat(s, n - 1)

\* sep.join(parts)
RECURSIVE Join(_, _)
Join(sep, parts) ==
    IF Len(parts) = 0 THEN ""
    ELSE IF Len(parts) = 1 THEN parts[1]
    ELSE parts[1] \o sep \o Join(sep, Tail(parts))

EndsWith(s, suffix) ==
    /\ Len(s) >= Len(suffix)
    /\ SubSeq(s, Len(s) - Len(suffix) + 1, Len(s)) = suffix

StartsWith(s, prefix) ==
    /\ Len(s) >= Len(prefix)
    /\ SubSeq(s, 1, Len(prefix)) = prefix

\* the characters str.split() and str.strip() treat as white space
Whitespace == {" ", "\n", "\t"}

CharAt(s, i) == SubSeq(s, i, i)

\* s.lstrip()
RECURSIVE LStrip(_)
LStrip(s) ==
    IF Len(s) > 0 /\ CharAt(s, 1) \in Whitespace
    THEN LStrip(SubSeq(s, 2, Len(s)))
    ELSE s

\* s.rstrip()
RECURSIVE RStrip(_)
RStrip(s) ==
    IF Len(s) > 0 /\ CharAt(s, Len(s)) \in Whitespace
    THEN RStrip(SubSeq(s, 1, Len(s) - 1))
    ELSE s

\* s.strip()
Strip(s) == RStrip(LStrip(s))

\* s.replace(old, new) for a one-character old
RECURSIVE ReplaceChar(_, _, _)
ReplaceChar(s, old, new) ==
    IF Len(s) = 0 THEN ""
    ELSE (IF CharAt(s, 1) = old THEN new ELSE CharAt(s, 1))
            \o ReplaceChar(SubSeq(s, 2, Len(s)), old, new)

\* s.split(): the maximal runs of non-white-space characters, in order
RECURSIVE SplitFrom(_, _, _)
SplitFrom(s, i, word) ==
    IF i > Len(s) THEN (IF word = "" THEN <<>> ELSE <<word>>)
    ELSE IF CharAt(s, i) \in Whitespace
         THEN (IF word = "" THEN <<>> ELSE <<word>>) \o SplitFrom(s, i + 1, "")
         ELSE SplitFrom(s, i + 1, word \o CharAt(s, i))

Split(s) == SplitFrom(s, 1, "")

(***************************************************************************)
(* Letter case: str.lower() and str.capitalize().                          *)
(***************************************************************************)
LowerLetters == "abcdefghijklmnopqrstuvwxyz"

UpperLetters == "ABCDEFGHIJKLMNOPQRSTUVWXYZ"

LowerChar(c) ==
    IF \E i \in 1..26 : CharAt(UpperLetters, i) = c
    THEN CharAt(LowerLetters, CHOOSE i \in 1..26 : CharAt(UpperLetters, i) = c)
    ELSE c

UpperChar(c) ==
    IF \E i \in 1..26 : CharAt(LowerLetters, i) = c
    THEN CharAt(UpperLetters, CHOOSE i \in 1..26 : CharAt(LowerLetters, i) = c)
    ELSE c

\* every character in lower case: one character, or the two halves of s
RECURSIVE Lower(_)
Lower(s) ==
    IF Len(s) = 0 THEN ""
    ELSE IF Len(s) = 1 THEN LowerChar(s)
    ELSE Lower(SubSeq(s, 1, Len(s) \div 2)) \o Lower(SubSeq(s, Len(s) \div 2 + 1, Len(s)))

Capitalize(s) ==
    IF Len(s) = 0 THEN ""
    ELSE UpperChar(CharAt(s, 1)) \o Lower(SubSeq(s, 2, Len(s)))

\* the least position >= from of a character of chars in s, or 0
FindAny(s, chars, from) ==
    LET hits == {i \in from..Len(s) : CharAt(s, i) \in chars}
    IN  IF hits = {} THEN 0 ELSE CHOOSE i \in hits : \A j \in hits : i <= j

\* sub in s
Contains(s, sub) ==
    \E i \in 1..(Len(s) - Len(sub) + 1) : SubSeq(s, i, i + Len(sub) - 1) = sub

\* s.replace(old, new, 1): the first occurrence only, matched case-sensitively
ReplaceFirst(s, old, new) ==
    IF ~Contains(s, old) THEN s
    ELSE LET i == CHOOSE k \in 1..(Len(s) - Len(old) + 1) :
                    /\ SubSeq(s, k, k + Len(old) - 1) = old
                    /\ \A j \in 1..(k - 1) : SubSeq(s, j, j + Len(old) - 1) # old
         IN  SubSeq(s, 1, i - 1) \o new \o SubSeq(s, i + Len(old), Len(s))

(***************************************************************************)
(* Exceptions and the outcome of a call: a returned value or a raised      *)
(* exception.  str(e) of an exception is its text.                         *)
(***************************************************************************)
Exc(type, text) == [type |-> type, text |-> text]

Returned(v) == [raised |-> FALSE, value |-> v]

Raised(e) == [raised |-> TRUE, exc |-> e]

\* the value of keyword argument name in the call kw, or the field's default
\* when the call leaves it out
Arg(kw, name, default) == IF name \in DOMAIN kw THEN kw[name] ELSE default

(***************************************************************************)
(* models.py: SummaryOptions.  A pydantic field's constraints and its      *)
(* field_validator run on a value the call passes; a field the call leaves *)
(* out takes its default unvalidated.                                      *)
(***************************************************************************)
allowed_models == {"gemini-1.5-flash", "gemini-1.5-pro", "gemini-1.0-pro"}

validate_model(v) == v \in allowed_models

\* the constraints with le=11 for max_summary_sentences
SummaryOptionsUpTo11(kw) ==
    IF \/ ("max_summary_sentences" \in DOMAIN kw
            /\ kw["max_summary_sentences"] \notin 1..11)
       \/ ("num_key_points" \in DOMAIN kw /\ kw["num_key_points"] \notin 1..10)
       \/ ("timeout_seconds" \in DOMAIN kw /\ kw["timeout_seconds"] \notin 1..60)
       \/ ("model" \in DOMAIN kw /\ ~validate_model(kw["model"]))
    THEN Raised(Exc("ValidationError", "validation error for SummaryOptions"))
    ELSE Returned([max_summary_sentences |-> Arg(kw, "max_summary_sentences", 4),
                   num_key_points |-> Arg(kw, "num_key_points", 5),
                   include_citations |-> Arg(kw, "include_citations", FALSE),
                   model |-> Arg(kw, "model", "gemini-1.5-flash"),
                   timeout_seconds |-> Arg(kw, "timeout_seconds", 15)])

SummaryOptions(kw) ==
    IF \/ ("max_summary_sentences" \in DOMAIN kw
            /\ kw["max_summary_sentences"] \notin 1..10)
       \/ ("num_key_points" \in DOMAIN kw /\ kw["num_key_points"] \notin 1..10)
       \/ ("timeout_seconds" \in DOMAIN kw /\ kw["timeout_seconds"] \notin 1..60)
       \/ ("model" \in DOMAIN kw /\ ~validate_model(kw["model"]))
    THEN Raised(Exc("ValidationError", "validation error for SummaryOptions"))
    ELSE Returned([max_summary_sentences |-> Arg(kw, "max_summary_sentences", 4),
                   num_key_points |-> Arg(kw, "num_key_points", 5),
                   include_citations |-> Arg(kw, "include_citations", FALSE),
                   model |-> Arg(kw, "model", "gemini-1.5-flash"),
                   timeout_seconds |-> Arg(kw, "timeout_seconds", 15)])

(***************************************************************************)
(* models.py: SummaryRequest.  The HttpUrl type accepts a string with      *)
(* scheme http or https and a host; validate_url then upgrades http.       *)
(***************************************************************************)
\* pydantic's HttpUrl on the string u: None when it is rejected, else
\* Some(str(url)), the normalised text: the scheme and the host in lower
\* case, the scheme's default port left out, "/" for an empty path
\* the text after the scheme's colon, without its leading slashes
SkipSlashes(after) ==
    LET slashes == {k \in 0..Len(after) : \A j \in 1..k : CharAt(after, j) \in {"/", "\\"}}
    IN  SubSeq(after, (CHOOSE k \in slashes : \A j \in slashes : j <= k) + 1, Len(after))

\* where the authority ends: the first of "/", "?", "#", or the end of the text
UrlDelim(rest) ==
    LET wdelim == FindAny(rest, {"/", "?", "#"}, 1)
    IN  IF wdelim = 0 THEN Len(rest) + 1 ELSE wdelim

UrlHost(authority) ==
    LET colon == FindAny(authority, {":"}, 1)
    IN  Lower(IF colon = 0 THEN authority ELSE SubSeq(authority, 1, colon - 1))

UrlPort(authority) ==
    LET colon == FindAny(authority, {":"}, 1)
    IN  IF colon = 0 THEN "" ELSE SubSeq(authority, colon + 1, Len(authority))

UrlPath(tail) == IF StartsWith(tail, "/") THEN tail ELSE "/" \o tail

\* the normalised text of the URL, or None when a part is not acceptable
NormalisedUrl(scheme, host, port, path) ==
    IF \/ scheme \notin {"http", "https"}
       \/ host = ""
       \/ Contains(host, " ")
       \/ \E k \in 1..Len(port) : ~Contains("0123456789", CharAt(port, k))
    THEN None
    ELSE Some(scheme \o "://" \o host
                \o (IF port \in {"", IF scheme = "http" THEN "80" ELSE "443"}
                    THEN "" ELSE ":" \o port)
                \o path)

HttpUrlParts(scheme, authority, tail) ==
    NormalisedUrl(scheme, UrlHost(authority), UrlPort(authority), UrlPath(tail))

HttpUrlRest(scheme, rest) ==
    HttpUrlParts(scheme, SubSeq(rest, 1, UrlDelim(rest) - 1),
                 SubSeq(rest, UrlDelim(rest), Len(rest)))

HttpUrl(u) ==
    LET i == FindAny(u, {":"}, 1)
    IN  IF i = 0 THEN None
        ELSE HttpUrlRest(Lower(SubSeq(u, 1, i - 1)), SkipSlashes(SubSeq(u, i + 1, Len(u))))

HttpUrlAccepts(u) == HttpUrl(u) # None

\* the validator returns the URL unchanged
validate_url_unchanged(v) == v

\* v is str(v) of the HttpUrl the field parsed
validate_url(v) ==
    IF StartsWith(v, "http://")
    THEN HttpUrl(ReplaceFirst(v, "http://", "https://"))[1]
    ELSE v

\* options is None or Some(a SummaryOptions value)
SummaryRequest(url, options) ==
    IF ~HttpUrlAccepts(url)
    THEN Raised(Exc("ValidationError", "validation error for SummaryRequest"))
    ELSE Returned([url |-> validate_url(HttpUrl(url)[1]), options |-> options])

(***************************************************************************)
(* models.py: SummaryResponse.  kw holds the keyword arguments the call    *)
(* passes; the two field validators run only on a passed data or error.    *)
(***************************************************************************)
validate_data_on_success(v, success) == ~(success /\ v = None)

validate_error_on_failure(v, success) == ~(~success /\ v = None)

SummaryResponse(kw) ==
    IF "success" \notin DOMAIN kw
    THEN Raised(Exc("ValidationError", "success: field required"))
    ELSE IF "data" \in DOMAIN kw /\ ~validate_data_on_success(kw["data"], kw["success"])
    THEN Raised(Exc("ValidationError", "data must be provided when success is True"))
    ELSE IF "error" \in DOMAIN kw /\ ~validate_error_on_failure(kw["error"], kw["success"])
    THEN Raised(Exc("ValidationError", "error must be provided when success is False"))
    ELSE Returned([success |-> kw["success"],
                   data |-> Arg(kw, "data", None),
                   error |-> Arg(kw, "error", None),
                   error_code |-> Arg(kw, "error_code", None)])

(***************************************************************************)
(* agent.py: WebSummarizerAgent.  The three stages are collaborators; the  *)
(* environment env of one invocation fixes what each stage does when it is *)
(* called: kind "ok" (it returns), "typed" (it raises its own error class  *)
(* with message and error_code) or "other" (it raises another exception).  *)
(* env.result is the dict the summarizer returns, a function from keys to  *)
(* values.                                                                 *)
(***************************************************************************)
StageOk == [kind |-> "ok", message |-> "", error_code |-> ""]

StageTyped(message, code) == [kind |-> "typed", message |-> message, error_code |-> code]

StageOther(text) == [kind |-> "other", message |-> text, error_code |-> ""]

\* d.get(key, default) of a Python dict
DictGet(d, key, default) == IF key \in DOMAIN d THEN d[key] ELSE default

\* SummaryData(...): summary must be a string (here: not None)
SummaryData(url, title, summary, key_points, citations, category, metadata) ==
    IF summary = None
    THEN Raised(Exc("ValidationError", "summary: input should be a valid string"))
    ELSE Returned([url |-> url, title |-> title, summary |-> summary[1],
                   key_points |-> key_points, citations |-> citations,
                   category |-> category, metadata |-> metadata])

\* the except clauses with the first three left out
StageFailureUnknown(st) ==
    SummaryResponse([success |-> FALSE,
                     error |-> Some("Unexpected error: " \o st.message),
                     error_code |-> Some("UNKNOWN_ERROR")])

\* the except clauses of summarize, for the outcome st of the stage that raised
StageFailure(st) ==
    IF st.kind = "typed"
    THEN SummaryResponse([success |-> FALSE, error |-> Some(st.message),
                          error_code |-> Some(st.error_code)])
    ELSE SummaryResponse([success |-> FALSE,
                          error |-> Some("Unexpected error: " \o st.message),
                          error_code |-> Some("UNKNOWN_ERROR")])

\* WebSummarizerAgent.summarize: the outcome of the call and the stages it
\* invoked, in order
summarize(request, env) ==
    LET url == request.url
        options == IF request.options = None
                   THEN SummaryOptions(<<>>).value
                   ELSE request.options[1]
        final_url == url
        res == env.result
        metadata == [tokens_used |-> DictGet(res, "tokens_used", 0),
                     model_used |-> DictGet(res, "model_used", options.model),
                     content_length |-> Len(env.text),
                     extraction_method |-> "readability"]
        data == SummaryData(final_url, env.title,
                            DictGet(res, "summary", Some("")),
                            DictGet(res, "key_points", <<>>),
                            IF options.include_citations
                            THEN DictGet(res, "citations", None) ELSE None,
                            DictGet(res, "category", None),
                            metadata)
    IN  IF env.fetch.kind # "ok"
        THEN [out |-> StageFailure(env.fetch), calls |-> <<"fetch">>]
        ELSE IF env.extract.kind # "ok"
        THEN [out |-> StageFailure(env.extract), calls |-> <<"fetch", "extract">>]
        ELSE IF env.summarize.kind # "ok"
        THEN [out |-> StageFailure(env.summarize),
              calls |-> <<"fetch", "extract", "summarize">>]
        ELSE IF data.raised
        THEN [out |-> StageFailure(StageOther(data.exc.text)),
              calls |-> <<"fetch", "extract", "summarize">>]
        ELSE [out |-> SummaryResponse([success |-> TRUE, data |-> Some(data.value)]),
              calls |-> <<"fetch", "extract", "summarize">>]

\* the default of summarize_url's model parameter
DefaultModel == "models/gemini-2.5-flash"

\* WebSummarizerAgent.summarize_url: kw holds the keyword arguments the caller
\* passes besides url; the request is built before summarize's try block
summarize_url(url, kw, env) ==
    LET opts == SummaryOptions(
                  [max_summary_sentences |-> Arg(kw, "max_summary_sentences", 4),
                   num_key_points |-> Arg(kw, "num_key_points", 5),
                   include_citations |-> Arg(kw, "include_citations", FALSE),
                   model |-> Arg(kw, "model", DefaultModel)])
        request == SummaryRequest(url, Some(opts.value))
    IN  IF opts.raised THEN [out |-> Raised(opts.exc), calls |-> <<>>]
        ELSE IF request.raised THEN [out |-> Raised(request.exc), calls |-> <<>>]
        ELSE summarize(request.value, env)

(***************************************************************************)
(* topic_aggregator.py: hashtags.  The code builds a set and returns       *)
(* list(set)[:10]; the order in which a Python set is listed is not fixed  *)
(* by the program, so the listing is an argument: any sequence that        *)
(* enumerates the set once.                                                *)
(***************************************************************************)
GenericHashtags == {"#TechNews", "#Innovation", "#DigitalTransformation"}

HashtagSet(topic) ==
    LET topic_words == Split(ReplaceChar(ReplaceChar(topic, "-", " "), "_", " "))
    IN  {"#" \o Capitalize(topic_words[i]) :
            i \in {j \in 1..Len(topic_words) : Len(topic_words[j]) > 3}}
        \cup GenericHashtags

\* the sequences that list the set S once each
Listings(S) ==
    {f \in [1..Cardinality(S) -> S] : \A i, j \in 1..Cardinality(S) : f[i] = f[j] => i = j}

_generate_hashtags(topic, key_points, listing) == PyHead(listing, 10)

(***************************************************************************)
(* topic_aggregator.py: the post templates.  Each emoji of the templates   *)
(* is one character of the Python string; an ASCII character stands for    *)
(* it here.                                                                *)
(***************************************************************************)
SocialMediaPost(platform, content, hashtags, character_count) ==
    [platform |-> platform, content |-> content, hashtags |-> hashtags,
     character_count |-> character_count]

\* f"{x}" of an Optional[str]
Fmt(opt) == IF opt = None THEN "None" ELSE opt[1]

_generate_twitter_post(summary, key_points, url, hashtags) ==
    LET max_length == 280
        url_length == 23
        hashtag_text == Join(" ", PyHead(hashtags, 3))
        reserved == url_length + Len(hashtag_text) + 4
        content == IF Len(key_points) > 0 THEN key_points[1] ELSE PyPrefix(summary, 100)
        available == max_length - reserved
        fitted == IF Len(content) > available
                  THEN PyPrefix(content, available - 3) \o "..."
                  ELSE content
        post_text == fitted \o "\n\n" \o url \o "\n\n" \o hashtag_text
    IN  SocialMediaPost("twitter", post_text, PyHead(hashtags, 3), Len(post_text))

\* post_text of the LinkedIn template before the limit is applied
linkedin_post_text(topic, title, summary, key_points, url, hashtags) ==
    LET points == PyHead(key_points, 5)
        numbered(i) == CharAt("12345", i) \o ". " \o points[i]
        post_parts == <<"% " \o topic \o ": " \o Fmt(title), "", summary, "", "Key Insights:">>
                      \o [i \in 1..Len(points) |-> numbered(i)]
                      \o <<"", "Read more: " \o url, "", Join(" ", PyHead(hashtags, 5))>>
    IN  Join("\n", post_parts)

\* a variant of LinkedinLimit that cuts at the limit and then adds the ellipsis
LinkedinLimitLate(post_text) ==
    IF Len(post_text) > 3000 THEN PyPrefix(post_text, 3000) \o "..." ELSE post_text

\* "Ensure within limit" of the LinkedIn template
LinkedinLimit(post_text) ==
    IF Len(post_text) > 3000 THEN PyPrefix(post_text, 2997) \o "..." ELSE post_text

_generate_linkedin_post(topic, title, summary, key_points, url, hashtags) ==
    LET post_text == LinkedinLimit(
                        linkedin_post_text(topic, title, summary, key_points, url, hashtags))
    IN  SocialMediaPost("linkedin", post_text, PyHead(hashtags, 5), Len(post_text))

_generate_facebook_post(topic, title, summary, key_points, url, hashtags) ==
    LET points == PyHead(key_points, 3)
        post_parts == <<"! " \o Fmt(title), "", summary, "", "* Highlights:">>
                      \o [i \in 1..Len(points) |-> "- " \o points[i]]
                      \o <<"", "@ " \o url, "", Join(" ", PyHead(hashtags, 3))>>
        post_text == Join("\n", post_parts)
    IN  SocialMediaPost("facebook", post_text, PyHead(hashtags, 3), Len(post_text))

\* post_text of the Instagram template before the limit is applied
instagram_post_text(summary, key_points, hashtags) ==
    LET points == PyHead(key_points, 5)
        emojis == <<"&", "!", "+", "~", "^">>
        post_parts == <<summary, "", "* Key takeaways:">>
                      \o [i \in 1..Len(points) |->
                            emojis[((i - 1) % Len(emojis)) + 1] \o " " \o points[i]]
                      \o <<"", Join(" ", PyHead(hashtags, 30))>>
    IN  Join("\n", post_parts)

\* "Ensure within limit" of the Instagram template
InstagramLimit(post_text) ==
    IF Len(post_text) > 2200 THEN PyPrefix(post_text, 2197) \o "..." ELSE post_text

_generate_instagram_post(summary, key_points, hashtags) ==
    LET post_text == InstagramLimit(instagram_post_text(summary, key_points, hashtags))
    IN  SocialMediaPost("instagram", post_text, PyHead(hashtags, 30), Len(post_text))

KnownPlatforms == {"twitter", "linkedin", "facebook", "instagram"}

\* the dict of posts, keyed by the lower-case platform name
_generate_social_posts(topic, summary, key_points, url, title, platforms, listing) ==
    LET hashtags == _generate_hashtags(topic, key_points, listing)
        wanted == {Lower(platforms[i]) : i \in 1..Len(platforms)} \cap KnownPlatforms
    IN  [p \in wanted |->
            IF p = "twitter"
            THEN _generate_twitter_post(summary, key_points, url, hashtags)
            ELSE IF p = "linkedin"
            THEN _generate_linkedin_post(topic, title, summary, key_points, url, hashtags)
            ELSE IF p = "facebook"
            THEN _generate_facebook_post(topic, title, summary, key_points, url, hashtags)
            ELSE _generate_instagram_post(summary, key_points, hashtags)]

(***************************************************************************)
(* topic_aggregator.py: the master summary.  gen is the outcome of the one *)
(* generate_content call the function can make: Returned(response text) or *)
(* Raised(exception).  The result carries the number of calls made and the *)
(* text handed to the model.                                               *)
(***************************************************************************)
\* [s for s in summaries if s.success], in order
RECURSIVE Successful(_)
Successful(summaries) ==
    IF Len(summaries) = 0 THEN <<>>
    ELSE (IF Head(summaries).success THEN <<Head(summaries)>> ELSE <<>>)
            \o Successful(Tail(summaries))

\* self.agent.summarizer.client on an AISummarizer: __init__ sets api_key and
\* configures genai, and nothing sets an attribute client
NoClient == Raised(Exc("AttributeError", "'AISummarizer' object has no attribute 'client'"))

\* whether evaluating the synthesis expression reached generate_content
Asked(gen) == ~gen.raised \/ gen.exc.type # "AttributeError"

\* a variant of FirstSummary that takes the last successful summary
LastSummary(successful_summaries) ==
    successful_summaries[Len(successful_summaries)].data[1].summary

\* successful_summaries[0].data.summary
FirstSummary(successful_summaries) == successful_summaries[1].data[1].summary

\* a variant of _generate_master_summary without the single-source shortcut
_generate_master_summary_eager(summaries, topic, gen) ==
    LET successful_summaries == Successful(summaries)
    IN  IF Len(successful_summaries) = 0
        THEN [text |-> "No articles were successfully summarized for the topic: " \o topic,
              model_calls |-> 0, prompt |-> None]
        ELSE IF ~gen.raised
        THEN [text |-> Strip(gen.value), model_calls |-> 1, prompt |-> None]
        ELSE [text |-> FirstSummary(successful_summaries),
              model_calls |-> 1, prompt |-> None]

\* gen is the outcome of self.agent.summarizer.client.generate_content(prompt):
\* the response text, or the exception raised by the call or by the attribute
\* lookup before it
_generate_master_summary(summaries, topic, gen) ==
    LET successful_summaries == Successful(summaries)
        combined_text ==
            Join("\n\n---\n\n",
                 [i \in 1..Len(successful_summaries) |->
                    "Source: " \o Fmt(successful_summaries[i].data[1].title) \o "\n"
                        \o successful_summaries[i].data[1].summary])
    IN  IF Len(successful_summaries) = 0
        THEN [text |-> "No articles were successfully summarized for the topic: " \o topic,
              model_calls |-> 0, prompt |-> None]
        ELSE IF Len(successful_summaries) = 1
        THEN [text |-> FirstSummary(successful_summaries),
              model_calls |-> 0, prompt |-> None]
        ELSE IF ~gen.raised
        THEN [text |-> Strip(gen.value), model_calls |-> 1, prompt |-> Some(combined_text)]
        ELSE [text |-> FirstSummary(successful_summaries),
              model_calls |-> IF Asked(gen) THEN 1 ELSE 0,
              prompt |-> Some(combined_text)]

(***************************************************************************)
(* topic_aggregator.py: the rows and the result of aggregate_topic, from   *)
(* the collected summaries.  A row is a dict: a function from its keys.    *)
(* The wall-clock fields (timestamp, processing_time_ms, generated_at) are *)
(* left out.                                                               *)
(***************************************************************************)
PostColumns(social_posts) ==
    LET keys == {p \o "_post" : p \in DOMAIN social_posts}
                \cup {p \o "_hashtags" : p \in DOMAIN social_posts}
                \cup {p \o "_chars" : p \in DOMAIN social_posts}
        owner(k) == CHOOSE p \in DOMAIN social_posts :
                        k \in {p \o "_post", p \o "_hashtags", p \o "_chars"}
    IN  [k \in keys |->
            IF k = owner(k) \o "_post" THEN social_posts[owner(k)].content
            ELSE IF k = owner(k) \o "_hashtags"
            THEN Join(" ", social_posts[owner(k)].hashtags)
            ELSE social_posts[owner(k)].character_count]

Row(data, topic, platforms, listing) ==
    LET social_posts == _generate_social_posts(topic, data.summary, data.key_points,
                                               data.url, data.title, platforms, listing)
    IN  PostColumns(social_posts)
        @@ [source_url |-> data.url,
            title |-> data.title,
            category |-> data.category,
            summary |-> data.summary,
            key_points |-> Join("; ", data.key_points),
            word_count |-> Len(Split(data.summary)),
            tokens_used |-> data.metadata.tokens_used]

\* a variant of Rows whose loop ends at the first failed summary
RECURSIVE RowsUntilFailure(_, _, _, _)
RowsUntilFailure(summaries, topic, platforms, listing) ==
    IF Len(summaries) = 0 \/ ~Head(summaries).success THEN <<>>
    ELSE <<Row(Head(summaries).data[1], topic, platforms, listing)>>
         \o RowsUntilFailure(Tail(summaries), topic, platforms, listing)

\* rows, in the order of the collected summaries, of the successful ones
RECURSIVE Rows(_, _, _, _)
Rows(summaries, topic, platforms, listing) ==
    IF Len(summaries) = 0 THEN <<>>
    ELSE (IF Head(summaries).success
          THEN <<Row(Head(summaries).data[1], topic, platforms, listing)>>
          ELSE <<>>)
         \o Rows(Tail(summaries), topic, platforms, listing)

\* all_key_points: the key points of the successful summaries, concatenated
RECURSIVE AllKeyPoints(_)
AllKeyPoints(summaries) ==
    IF Len(summaries) = 0 THEN <<>>
    ELSE (IF Head(summaries).success THEN Head(summaries).data[1].key_points ELSE <<>>)
         \o AllKeyPoints(Tail(summaries))

\* a variant of TotalSources that counts each distinct URL once
TotalSourcesDistinct(urls_arg) == Cardinality({urls_arg[i] : i \in 1..Len(urls_arg)})

\* total_sources: len(urls)
TotalSources(urls_arg) == Len(urls_arg)

\* lines 54-159 of aggregate_topic, after _fetch_summaries returned:
\* platforms_arg is None or Some(list)
AggregateResult(topic, urls_arg, platforms_arg, summaries, listing, gen) ==
    LET platforms == IF platforms_arg = None
                     THEN <<"twitter", "linkedin", "facebook">>
                     ELSE platforms_arg[1]
        rows == Rows(summaries, topic, platforms, listing)
        master == _generate_master_summary(summaries, topic, gen)
        ok == Successful(summaries)
        first_url == IF Len(ok) > 0 THEN ok[1].data[1].url ELSE ""
        first_title == Some(topic \o " - Research Summary")
        consolidated_posts ==
            _generate_social_posts(topic, master.text, PyHead(AllKeyPoints(summaries), 5),
                                   first_url, first_title, platforms, listing)
    IN  [topic |-> topic,
         total_sources |-> TotalSources(urls_arg),
         successful_summaries |-> Len(rows),
         failed_summaries |-> Len(urls_arg) - Len(rows),
         platforms |-> platforms,
         master_summary |-> master.text,
         social_media_posts |-> [p \in DOMAIN consolidated_posts |->
                                    consolidated_posts[p].content],
         summaries |-> [i \in 1..Len(summaries) |->
                          [url |-> IF summaries[i].success
                                   THEN summaries[i].data[1].url ELSE "",
                           success |-> summaries[i].success,
                           error |-> IF summaries[i].success THEN None
                                     ELSE summaries[i].error]],
         data |-> rows]

(***************************************************************************)
(* spreadsheet_generator.py: the columns generate_csv derives from the     *)
(* result and the cells DictWriter writes: the value of the row under the  *)
(* column's name, or nothing when the row has no such key.                 *)
(***************************************************************************)
RECURSIVE PlatformColumns(_)
PlatformColumns(platforms) ==
    IF Len(platforms) = 0 THEN <<>>
    ELSE <<Head(platforms) \o "_post", Head(platforms) \o "_hashtags",
           Head(platforms) \o "_chars">> \o PlatformColumns(Tail(platforms))

CsvColumns(aggregated_data, include_metadata) ==
    <<"source_url", "title", "category", "summary", "key_points">>
        \o PlatformColumns(aggregated_data.platforms)
        \o (IF include_metadata
            THEN <<"word_count", "tokens_used", "processing_time_ms", "timestamp">>
            ELSE <<>>)

\* generate_csv(aggregated_data): the header and, per row, the cell of every
\* column (None for an empty cell); ValueError when there is no row
generate_csv(aggregated_data, include_metadata) ==
    LET columns == CsvColumns(aggregated_data, include_metadata)
    IN  IF Len(aggregated_data.data) = 0
        THEN Raised(Exc("ValueError", "No data to export"))
        ELSE Returned([header |-> columns,
                       cells |-> [r \in 1..Len(aggregated_data.data) |->
                                    [c \in 1..Len(columns) |->
                                        IF columns[c] \in DOMAIN aggregated_data.data[r]
                                        THEN Some(aggregated_data.data[r][columns[c]])
                                        ELSE None]]])

(***************************************************************************)
(* The world the aggregator runs in.  What the web and the model answer    *)
(* for a URL is fixed per URL.  TopicAggregator takes its agent as a       *)
(* constructor argument: "WebSummarizerAgent" is the class of agent.py,    *)
(* "InjectedAgent" any other object with a summarize_url method, which     *)
(* returns what the pipeline returns or raises.                            *)
(***************************************************************************)
UrlPool == {"https://ok.example/a", "https://fine.example/b",
            "https://gone.example/c", "https://boom.example/d"}

EnvOf(url) ==
    [fetch |-> IF url = "https://gone.example/c"
               THEN StageTyped("Page not found (404): " \o url, "NOT_FOUND")
               ELSE StageOk,
     extract |-> StageOk,
     summarize |-> IF url = "https://boom.example/d"
                   THEN StageOther("connection reset")
                   ELSE StageOk,
     text |-> Repeat("word ", 30),
     title |-> Some("Title of " \o url),
     result |-> [summary |-> Some("Summary of " \o url \o "."),
                 key_points |-> <<"First point of " \o url, "Second point of " \o url>>,
                 category |-> Some("Technology"),
                 tokens_used |-> 120]]

AgentImpls == {"WebSummarizerAgent", "InjectedAgent"}

\* self.agent.summarize_url(url), as _fetch_summaries calls it: url only
InvokeAgent(impl, url) ==
    IF impl = "WebSummarizerAgent"
    THEN summarize_url(url, <<>>, EnvOf(url)).out
    ELSE IF url = "https://boom.example/d"
    THEN Raised(Exc("RuntimeError", "boom"))
    ELSE summarize(SummaryRequest(url, None).value, EnvOf(url)).out

Topics == {"ai"}

PlatformArgs == {None, Some(<<"Twitter", "instagram">>)}

\* what generate_content can do for the master summary, on a summarizer that
\* has a client
GenOutcomes == {Returned("  A synthesis of the sources.\n"),
                Raised(Exc("RuntimeError", "model unavailable"))}

\* what the synthesis expression can do with the agent impl: the summarizer of
\* a WebSummarizerAgent is an AISummarizer; that of an injected agent is an
\* AISummarizer too or an object with a client
SynthesisOutcomes(impl) ==
    IF impl = "WebSummarizerAgent" THEN {NoClient} ELSE GenOutcomes \cup {NoClient}

\* all lists of at most n elements of S
RECURSIVE ListsUpTo(_, _)
ListsUpTo(S, n) ==
    IF n = 0 THEN {<<>>}
    ELSE LET shorter == ListsUpTo(S, n - 1)
         IN  shorter \cup {Append(l, x) : l \in {m \in shorter : Len(m) = n - 1}, x \in S}

(***************************************************************************)
(* State of one aggregate_topic call.                                      *)
(***************************************************************************)
VARIABLES
    topic,        \* argument topic
    urls,         \* argument urls
    platforms,    \* argument platforms: None or Some(list)
    max_workers,  \* argument max_workers
    agent,        \* self.agent: which implementation
    pc,           \* position of the calling thread
    nsub,         \* number of URLs submitted to the executor so far
    queue,        \* the executor's work queue: submitted tasks not yet started
    running,      \* tasks whose summarize_url call is executing on a pool thread
    finished,     \* tasks whose future is done
    handed,       \* per task, how many times its URL was handed to the Agent
    now,          \* time units since the caller entered as_completed
    finishedAt,   \* per task, the value of now when its future became done
    collected,    \* the tasks in the order as_completed yielded them
    summaries,    \* the list summaries of _fetch_summaries
    result,       \* the returned dict: None or Some(dict)
    modelCalls,   \* generate_content calls made for the master summary
    synthesis,    \* None, or Some(outcome) of the synthesis expression of line 410
    prompt        \* None, or Some(combined_text) the synthesis prompt was built from

aggVars == <<topic, urls, platforms, max_workers, agent, pc, nsub, queue, running,
             finished, handed, now, finishedAt, collected, summaries, result,
             modelCalls, synthesis, prompt>>

\* state of one SummaryResponse construction
VARIABLES
    r_pc,     \* "idle" before the call, "built" after it
    r_call,   \* the keyword arguments of the call
    r_out     \* Returned(the response) or Raised(ValidationError)

respVars == <<r_pc, r_call, r_out>>

\* state of one call of an entry point of the Agent
VARIABLES
    a_pc,     \* "idle" before the call, "called" after it
    a_call,   \* the entry point and its arguments
    a_out     \* the outcome and the stages invoked

agentVars == <<a_pc, a_call, a_out>>

\* state of one call of _generate_social_posts
VARIABLES
    p_pc,     \* "idle" before the call, "generated" after it
    p_args,   \* the arguments of the call
    p_posts   \* the dict of posts returned

postVars == <<p_pc, p_args, p_posts>>


\* state of one call of URLFetcher.fetch
VARIABLES
    f_pc,     \* "idle" before the call, "fetched" after it
    f_url,    \* the argument url
    f_world,  \* what the network does with a GET request
    f_out     \* the outcome and the GET requests issued

fetchVars == <<f_pc, f_url, f_world, f_out>>


\* state of one call of ContentExtractor.extract
VARIABLES
    e_pc,     \* "idle" before the call, "extracted" after it
    e_args,   \* the html, what parsing it gives, and the extractor's two lengths
    e_out     \* the outcome, whether parsing was attempted, and the text of line 66

extractVars == <<e_pc, e_args, e_out>>


\* state of one call of _generate_hashtags
VARIABLES
    h_pc,     \* "idle" before the call, "tagged" after it
    h_args,   \* the topic and the order in which the set was listed
    h_out     \* the returned list

tagVars == <<h_pc, h_args, h_out>>


\* state of one call of AISummarizer.summarize
VARIABLES
    s_pc,     \* "idle" before the call, "summarized" after it
    s_args,   \* the text, the model name, and what the generative model answers
    s_out,    \* the outcome: the returned dict or the SummarizationError
    s_calls   \* how many times generate_content was called

sumVars == <<s_pc, s_args, s_out, s_calls>>


\* state of one request to an export endpoint of api.py
VARIABLES
    x_pc,     \* "idle" before the request, "answered" after it
    x_args,   \* the endpoint, the request body and what the services do
    x_out     \* the StreamingResponse returned or the HTTPException raised

exportVars == <<x_pc, x_args, x_out>>


\* state of one construction of a model of models.py
VARIABLES
    m_pc,     \* "idle" before the construction, "constructed" after it
    m_call,   \* the class and the arguments passed
    m_out     \* the outcome: the instance or the ValidationError

modelVars == <<m_pc, m_call, m_out>>


\* state of one call of WebSearcher.search
VARIABLES
    w_pc,     \* "idle" before the call, "searched" after it
    w_args,   \* whether the backend library is installed, and what each attempt does
    w_out     \* the outcome and the backend calls made, in order

searchVars == <<w_pc, w_args, w_out>>

vars == <<aggVars, respVars, agentVars, postVars, fetchVars, extractVars, tagVars, sumVars, exportVars, modelVars, searchVars>>

\* what an action of one component leaves alone
notAgg == <<respVars, agentVars, postVars, fetchVars, extractVars, tagVars, sumVars, exportVars, modelVars, searchVars>>

notResp == <<aggVars, agentVars, postVars, fetchVars, extractVars, tagVars, sumVars, exportVars, modelVars, searchVars>>

notAgent == <<aggVars, respVars, postVars, fetchVars, extractVars, tagVars, sumVars, exportVars, modelVars, searchVars>>

notPosts == <<aggVars, respVars, agentVars, fetchVars, extractVars, tagVars, sumVars, exportVars, modelVars, searchVars>>

notFetch == <<aggVars, respVars, agentVars, postVars, extractVars, tagVars, sumVars, exportVars, modelVars, searchVars>>

notExtract == <<aggVars, respVars, agentVars, postVars, fetchVars, tagVars, sumVars, exportVars, modelVars, searchVars>>

notTags == <<aggVars, respVars, agentVars, postVars, fetchVars, extractVars, sumVars, exportVars, modelVars, searchVars>>

notSum == <<aggVars, respVars, agentVars, postVars, fetchVars, extractVars, tagVars, exportVars, modelVars, searchVars>>

notExport == <<aggVars, respVars, agentVars, postVars, fetchVars, extractVars, tagVars, sumVars, modelVars, searchVars>>

notModels == <<aggVars, respVars, agentVars, postVars, fetchVars, extractVars, tagVars, sumVars, exportVars, searchVars>>

notSearch == <<aggVars, respVars, agentVars, postVars, fetchVars, extractVars, tagVars, sumVars, exportVars, modelVars>>

Tasks == 1..Len(urls)

AggInit ==
    /\ topic \in Topics
    /\ urls \in ListsUpTo(UrlPool, MaxUrls)
    /\ platforms \in PlatformArgs
    /\ max_workers \in 0..MaxWorkers
    /\ agent \in AgentImpls
    /\ pc = "start"
    /\ nsub = 0
    /\ queue = <<>>
    /\ running = {}
    /\ finished = {}
    /\ handed = [i \in 1..Len(urls) |-> 0]
    /\ now = 0
    /\ finishedAt = [i \in 1..Len(urls) |-> 0]
    /\ collected = <<>>
    /\ summaries = <<>>
    /\ result = None
    /\ modelCalls = 0
    /\ synthesis = None
    /\ prompt = None

\* ThreadPoolExecutor(max_workers=max_workers): a pool size below 1 is refused
CreatePool ==
    /\ pc = "start"
    /\ pc' = IF max_workers <= 0 THEN "raised" ELSE "submit"
    /\ UNCHANGED <<topic, urls, platforms, max_workers, agent, nsub, queue, running,
                   finished, handed, now, finishedAt, collected, summaries, result,
                   modelCalls, synthesis, prompt>>
    /\ UNCHANGED notAgg

\* executor.submit(self.agent.summarize_url, url) for the next url of the list
Submit ==
    /\ pc = "submit"
    /\ nsub < Len(urls)
    /\ nsub' = nsub + 1
    /\ queue' = Append(queue, nsub + 1)
    /\ UNCHANGED <<topic, urls, platforms, max_workers, agent, pc, running, finished,
                   handed, now, finishedAt, collected, summaries, result, modelCalls,
                   synthesis, prompt>>
    /\ UNCHANGED notAgg

\* the dict comprehension is complete: the caller enters as_completed
StartWaiting ==
    /\ pc = "submit"
    /\ nsub = Len(urls)
    /\ pc' = "collect"
    /\ UNCHANGED <<topic, urls, platforms, max_workers, agent, nsub, queue, running,
                   finished, handed, now, finishedAt, collected, summaries, result,
                   modelCalls, synthesis, prompt>>
    /\ UNCHANGED notAgg

\* a variant of ThreadAvailable for a pool that starts a thread per task
ThreadAlwaysAvailable == TRUE

\* a variant of ThreadAvailable for a pool whose threads end after one task
ThreadNeverReused == Cardinality(running) + Cardinality(finished) < max_workers

\* the pool has a thread for one more task
ThreadAvailable == Cardinality(running) < max_workers

\* a pool thread takes the oldest queued task and calls summarize_url(url)
WorkerTake ==
    /\ pc \in {"submit", "collect"}
    /\ Len(queue) > 0
    /\ ThreadAvailable
    /\ running' = running \cup {Head(queue)}
    /\ handed' = [handed EXCEPT ![Head(queue)] = @ + 1]
    /\ queue' = Tail(queue)
    /\ UNCHANGED <<topic, urls, platforms, max_workers, agent, pc, nsub, finished, now,
                   finishedAt, collected, summaries, result, modelCalls, synthesis, prompt>>
    /\ UNCHANGED notAgg

\* the summarize_url call of task i returns or raises: its future is done
WorkerFinish(i) ==
    /\ i \in running
    /\ running' = running \ {i}
    /\ finished' = finished \cup {i}
    /\ finishedAt' = [finishedAt EXCEPT ![i] = now]
    /\ UNCHANGED <<topic, urls, platforms, max_workers, agent, pc, nsub, queue, handed,
                   now, collected, summaries, result, modelCalls, synthesis, prompt>>
    /\ UNCHANGED notAgg

\* time passes while the caller waits in as_completed for running tasks
Tick ==
    /\ pc = "collect"
    /\ running # {}
    /\ now < MaxTime
    /\ now' = now + TickStep
    /\ UNCHANGED <<topic, urls, platforms, max_workers, agent, pc, nsub, queue, running,
                   finished, handed, finishedAt, collected, summaries, result,
                   modelCalls, synthesis, prompt>>
    /\ UNCHANGED notAgg

\* future.result(timeout): a done future answers at once, whatever the timeout;
\* a future that is not done makes the caller wait and raises after timeout
FutureResult(i, timeout) ==
    IF i \in finished THEN InvokeAgent(agent, urls[i])
    ELSE Raised(Exc("TimeoutError", ""))

\* a variant of CollectOutcome without the try/except around future.result
CollectOutcomeUncaught(i) == FutureResult(i, 60)

\* the body of the as_completed loop for task i: Returned(the entry appended
\* to summaries), or Raised(e) when an exception leaves the loop
CollectOutcome(i) ==
    LET out == FutureResult(i, 60)
    IN  IF ~out.raised THEN out
        ELSE SummaryResponse([success |-> FALSE, error |-> Some(out.exc.text),
                              error_code |-> Some("FETCH_FAILED")])

\* as_completed yields a done future not yielded before; the loop body runs
Collect(i) ==
    /\ pc = "collect"
    /\ i \in finished
    /\ \A k \in 1..Len(collected) : collected[k] # i
    /\ LET entry == CollectOutcome(i)
       IN  IF entry.raised
           THEN /\ pc' = "raised"
                /\ UNCHANGED <<collected, summaries>>
           ELSE /\ collected' = Append(collected, i)
                /\ summaries' = Append(summaries, entry.value)
                /\ pc' = pc
    /\ UNCHANGED <<topic, urls, platforms, max_workers, agent, nsub, queue, running,
                   finished, handed, now, finishedAt, result, modelCalls, synthesis, prompt>>
    /\ UNCHANGED notAgg

\* the answers generate_content can give in this call: it is asked only when
\* two or more summaries succeeded
GenChoices ==
    IF Len(Successful(summaries)) >= 2 THEN SynthesisOutcomes(agent) ELSE {Returned("")}

\* every future was yielded: the pool shuts down, _fetch_summaries returns and
\* aggregate_topic builds and returns its result
Build ==
    /\ pc = "collect"
    /\ Len(collected) = Len(urls)
    /\ \E listing \in Listings(HashtagSet(topic)), gen \in GenChoices :
         /\ result' = Some(AggregateResult(topic, urls, platforms, summaries, listing, gen))
         /\ LET master == _generate_master_summary(summaries, topic, gen)
            IN  /\ modelCalls' = master.model_calls
                /\ prompt' = master.prompt
                /\ synthesis' = IF master.prompt = None THEN None ELSE Some(gen)
    /\ pc' = "done"
    /\ UNCHANGED <<topic, urls, platforms, max_workers, agent, nsub, queue, running,
                   finished, handed, now, finishedAt, collected, summaries>>
    /\ UNCHANGED notAgg

AggNext ==
    \/ CreatePool
    \/ Submit
    \/ StartWaiting
    \/ WorkerTake
    \/ \E i \in Tasks : WorkerFinish(i)
    \/ \E i \in Tasks : Collect(i)
    \/ Build

(***************************************************************************)
(* Constructing a SummaryResponse: one call with the keyword arguments     *)
(* r_call, whose outcome is r_out.                                         *)
(***************************************************************************)
SampleData ==
    [url |-> "https://ok.example/a", title |-> Some("T"), summary |-> "S.",
     key_points |-> <<"p">>, citations |-> None, category |-> None,
     metadata |-> [tokens_used |-> 0, model_used |-> "gemini-1.5-flash",
                   content_length |-> 100, extraction_method |-> "readability"]]

\* the keyword-argument sets tried: each optional field left out, passed as
\* None, or passed with a value
ResponseCalls ==
    {[k \in ks |-> IF k = "success" THEN sv
                   ELSE IF k = "data" THEN dv
                   ELSE IF k = "error" THEN ev
                   ELSE cv] :
        ks \in {{"success"} \cup opt : opt \in SUBSET {"data", "error", "error_code"}},
        sv \in BOOLEAN,
        dv \in {None, Some(SampleData), Some([SampleData EXCEPT !.title = None])},
        ev \in {None, Some("boom"), Some(""), Some("Page not found (404)")},
        cv \in {None, Some("FETCH_FAILED")}}

RespInit ==
    /\ r_pc = "idle"
    /\ r_call = <<>>
    /\ r_out = Returned(None)

Construct ==
    /\ r_pc = "idle"
    /\ \E kw \in ResponseCalls :
         /\ r_call' = kw
         /\ r_out' = SummaryResponse(kw)
    /\ r_pc' = "built"
    /\ UNCHANGED notResp

(***************************************************************************)
(* One call of an entry point of the Agent: summarize (with a request the  *)
(* caller constructed) or summarize_url (with a URL string and keyword     *)
(* arguments), in an environment that fixes what the stages do.            *)
(***************************************************************************)
UrlStrings == {"https://ok.example/a", "http://plain.example/b", "not a url", ""}

StageOutcomes(code) ==
    {StageOk, StageTyped("failed with " \o code, code), StageOther("crash in " \o code)}

SummarizerResults ==
    {[summary |-> Some("A summary."), key_points |-> <<"p1", "p2">>,
      category |-> Some("Technology"), tokens_used |-> 7],
     [key_points |-> <<"p1">>],
     [summary |-> None, key_points |-> <<>>]}

Envs ==
    {[fetch |-> f, extract |-> e, summarize |-> m, text |-> Repeat("word ", 30),
      title |-> Some("A title"), result |-> r] :
        f \in StageOutcomes("NOT_FOUND"),
        e \in StageOutcomes("INSUFFICIENT_CONTENT"),
        m \in StageOutcomes("AI_TIMEOUT"),
        r \in SummarizerResults}

\* api.py, POST /summarize with only a URL in the body: the fields of
\* SummarizeURLRequest at their defaults, all passed on to summarize_url
SummarizeURLRequestDefaults ==
    [max_summary_sentences |-> 4, num_key_points |-> 5, include_citations |-> FALSE,
     model |-> "models/gemini-2.5-flash"]

\* keyword arguments of summarize_url tried: none, or some of them passed
UrlCallArgs ==
    {<<>>, SummarizeURLRequestDefaults}
    \cup {[model |-> m] : m \in {"gemini-1.5-flash", "gemini-1.5-pro", DefaultModel}}
    \cup {[model |-> "gemini-1.5-flash", max_summary_sentences |-> n] : n \in {0, 1, 10, 11}}
    \cup {[model |-> "gemini-1.0-pro", num_key_points |-> n, include_citations |-> TRUE] :
            n \in {0, 10}}

\* the requests a caller of summarize can hold: those SummaryRequest accepts
Requests ==
    {SummaryRequest(u, o).value :
        u \in {v \in UrlStrings : HttpUrlAccepts(v)},
        o \in {None, Some(SummaryOptions(<<>>).value),
               Some(SummaryOptions([model |-> "gemini-1.5-pro",
                                    include_citations |-> TRUE]).value)}}

AgentInit ==
    /\ a_pc = "idle"
    /\ a_call = [entry |-> "none"]
    /\ a_out = [out |-> Returned(None), calls |-> <<>>]

CallSummarize ==
    /\ a_pc = "idle"
    /\ \E request \in Requests, env \in Envs :
         /\ a_call' = [entry |-> "summarize", request |-> request, env |-> env]
         /\ a_out' = summarize(request, env)
    /\ a_pc' = "called"
    /\ UNCHANGED notAgent

CallSummarizeUrl ==
    /\ a_pc = "idle"
    /\ \E url \in UrlStrings, kw \in UrlCallArgs, env \in Envs :
         /\ a_call' = [entry |-> "summarize_url", url |-> url, kw |-> kw, env |-> env]
         /\ a_out' = summarize_url(url, kw, env)
    /\ a_pc' = "called"
    /\ UNCHANGED notAgent

(***************************************************************************)
(* One call of _generate_social_posts with all four platforms.             *)
(***************************************************************************)
PostTopics == {"ai", "quantum ai"}

PostSummaries ==
    {"", "A short summary.", Repeat("s", 150), Repeat("word ", 430),
     Repeat("word ", 438), Repeat("word ", 590), Repeat("word ", 640)}

PostKeyPoints ==
    {<<>>, <<"One key point">>, <<Repeat("k", 300)>>,
     <<"p1", "p2", "p3", "p4", "p5", Repeat("x", 4000)>>}

PostUrls == {"", "https://ok.example/a", "https://ok.example/" \o Repeat("p", 40)}

PostTitles == {None, Some("A title")}

AllPlatforms == <<"twitter", "LinkedIn", "facebook", "INSTAGRAM">>

PostInit ==
    /\ p_pc = "idle"
    /\ p_args = [topic |-> ""]
    /\ p_posts = <<>>

GeneratePosts ==
    /\ p_pc = "idle"
    /\ \E t \in PostTopics, sm \in PostSummaries, kp \in PostKeyPoints, u \in PostUrls,
          ti \in PostTitles :
         \E listing \in Listings(HashtagSet(t)) :
            /\ p_args' = [topic |-> t, summary |-> sm, key_points |-> kp, url |-> u,
                          title |-> ti, listing |-> listing]
            /\ p_posts' = _generate_social_posts(t, sm, kp, u, ti, AllPlatforms, listing)
    /\ p_pc' = "generated"
    /\ UNCHANGED notPosts

(***************************************************************************)
(* fetcher.py: URLFetcher.fetch.  urlparse is modelled by what urlsplit     *)
(* does to find the scheme and the network location; the network is a      *)
(* collaborator that answers a GET with a response or with an exception.   *)
(***************************************************************************)

Digits == "0123456789"

\* scheme_chars of urllib.parse
SchemeChars ==
    {CharAt(LowerLetters, i) : i \in 1..26} \cup {CharAt(UpperLetters, i) : i \in 1..26}
        \cup {CharAt(Digits, i) : i \in 1..10} \cup {"+", "-", "."}

Letters ==
    {CharAt(LowerLetters, i) : i \in 1..26} \cup {CharAt(UpperLetters, i) : i \in 1..26}

\* urlparse(url): the scheme (lower-cased) and the netloc, or ValueError for a
\* netloc with an unmatched square bracket
urlparse(url) ==
    LET i == FindAny(url, {":"}, 1)
        has_scheme ==
            /\ i > 1
            /\ CharAt(url, 1) \in Letters
            /\ \A k \in 1..(i - 1) : CharAt(url, k) \in SchemeChars
        scheme == IF has_scheme THEN Lower(SubSeq(url, 1, i - 1)) ELSE ""
        rest == IF has_scheme THEN SubSeq(url, i + 1, Len(url)) ELSE url
        wdelim == FindAny(rest, {"/", "?", "#"}, 3)
        delim == IF wdelim = 0 THEN Len(rest) + 1 ELSE wdelim
        netloc == IF StartsWith(rest, "//") THEN SubSeq(rest, 3, delim - 1) ELSE ""
    IN  IF Contains(netloc, "[") # Contains(netloc, "]")
        THEN Raised(Exc("ValueError", "Invalid IPv6 URL"))
        ELSE Returned([scheme |-> scheme, netloc |-> netloc])

\* FetchError(message, error_code)
FetchError(message, error_code) ==
    [type |-> "FetchError", text |-> message, error_code |-> error_code]

\* lines 58-61: the URL the request is issued to
UpgradedUrl(url, scheme) ==
    IF scheme = "http" THEN ReplaceFirst(url, "http://", "https://") ELSE url

\* the classes of requests.exceptions an exception of the transport belongs to
ExceptionBases(exc) ==
    IF exc \in {"Timeout", "ConnectTimeout", "ReadTimeout"}
    THEN {"Timeout", "RequestException", "Exception"}
    ELSE IF exc \in {"ConnectionError", "TooManyRedirects", "InvalidSchema"}
    THEN {"RequestException", "Exception"}
    ELSE {"Exception"}

\* session.get(url, ...): requests has connection adapters for http and https
\* only; for these the network answers
SessionGet(url, world) ==
    IF urlparse(url).value.scheme \in {"http", "https"}
    THEN world
    ELSE [kind |-> "exception", exc |-> "InvalidSchema",
          text |-> "No connection adapters were found for " \o url]

\* lines 86-108: the error raised for the response's status code, if any
StatusError(status, url) ==
    IF status = 404
    THEN Some(FetchError("Page not found (404): " \o url, "NOT_FOUND"))
    ELSE IF status = 403
    THEN Some(FetchError("Access forbidden (403): " \o url, "FORBIDDEN"))
    ELSE IF status = 500
    THEN Some(FetchError("Server error (500): " \o url, "SERVER_ERROR"))
    ELSE IF status >= 400
    THEN Some(FetchError("HTTP error " \o ToString(status) \o ": " \o url,
                         "HTTP_" \o ToString(status)))
    ELSE None

\* lines 122-141: the FetchError an exception of the transport is turned into
TransportError(answer, url, timeout) ==
    IF "Timeout" \in ExceptionBases(answer.exc)
    THEN FetchError("Request timeout after " \o ToString(timeout) \o " seconds: " \o url,
                    "TIMEOUT")
    ELSE IF "RequestException" \in ExceptionBases(answer.exc)
    THEN FetchError("Failed to fetch URL: " \o answer.text, "REQUEST_FAILED")
    ELSE FetchError("Unexpected error while fetching URL: " \o answer.text,
                    "UNKNOWN_ERROR")

\* a variant of OwnRequests that issues the GET again after an error
OwnRequestsRetried(url, answer) ==
    IF answer.kind = "exception" \/ answer.status >= 400
    THEN <<url, url>>
    ELSE <<url>>

\* lines 79-84: the GET requests fetch itself issues for the url
OwnRequests(url, answer) == <<url>>

\* fetch(url) of a URLFetcher with the given timeout; world is what the network
\* does with the request.  The result holds the outcome and the requests issued.
fetch(url, world, timeout) ==
    LET parsed == urlparse(url)
    IN  IF parsed.raised
        THEN [out |-> parsed, requests |-> <<>>]
        ELSE IF parsed.value.scheme = "" \/ parsed.value.netloc = ""
        THEN [out |-> Raised(FetchError("Invalid URL format: " \o url, "INVALID_URL")),
              requests |-> <<>>]
        ELSE
            LET target == UpgradedUrl(url, parsed.value.scheme)
                answer == SessionGet(target, world)
                requests == OwnRequests(target, answer)
            IN  IF answer.kind = "exception"
                THEN [out |-> Raised(TransportError(answer, target, timeout)),
                      requests |-> requests]
                ELSE IF StatusError(answer.status, target) # None
                THEN [out |-> Raised(StatusError(answer.status, target)[1]),
                      requests |-> requests]
                ELSE [out |-> Returned(<<answer.text, answer.url>>),
                      requests |-> requests]

\* the URLs fetch is called with
FetchUrls ==
    {"https://example.com", "http://example.com", "HTTP://example.com",
     "Http://example.com/?next=http://b.example", "http://example.com/a?u=http://c.example",
     "not-a-url", "https://", "//example.com", "", "ftp://example.com",
     "mailto:someone@example.com", "http://[example.com"}

\* what the network does with a GET request
FetchWorlds ==
    {[kind |-> "response", status |-> st, text |-> "<html><body>Hello</body></html>",
      url |-> "https://landing.example/"] :
        st \in {200, 204, 304, 400, 403, 404, 410, 500, 503}}
    \cup
    {[kind |-> "exception", exc |-> e, text |-> "transport failed"] :
        e \in {"Timeout", "ConnectTimeout", "ConnectionError", "TooManyRedirects",
               "UnicodeError"}}

\* URLFetcher(timeout=10), the default
FetchTimeout == 10

FetchInit ==
    /\ f_pc = "idle"
    /\ f_url = ""
    /\ f_world = [kind |-> "none"]
    /\ f_out = [out |-> Returned(<<>>), requests |-> <<>>]

Fetch ==
    /\ f_pc = "idle"
    /\ \E url \in FetchUrls, world \in FetchWorlds :
         /\ f_url' = url
         /\ f_world' = world
         /\ f_out' = fetch(url, world, FetchTimeout)
    /\ f_pc' = "fetched"
    /\ UNCHANGED notFetch

(***************************************************************************)
(* extractor.py: ContentExtractor.  readability and BeautifulSoup are      *)
(* collaborators: parsing the html gives a title and a tree of elements    *)
(* (the soup), or raises.  An element is its tag, its class tokens, its    *)
(* id, the text it holds before its children, and its children.            *)
(***************************************************************************)
ExtractionError(message, error_code) ==
    [type |-> "ExtractionError", text |-> message, error_code |-> error_code]

Element(tag, class, id, text, kids) ==
    [tag |-> tag, class |-> class, id |-> id, text |-> text, kids |-> kids]

\* the length of the run of characters of chars that starts at position i of s
RunLength(s, chars, i) ==
    LET stops == {j \in i..Len(s) : CharAt(s, j) \notin chars}
    IN  IF stops = {} THEN Max(Len(s) - i + 1, 0)
        ELSE (CHOOSE j \in stops : \A k \in stops : j <= k) - i

\* the length of the run of characters outside chars that starts at position i of s
RunLengthNot(s, chars, i) ==
    LET stops == {j \in i..Len(s) : CharAt(s, j) \in chars}
    IN  IF stops = {} THEN Max(Len(s) - i + 1, 0)
        ELSE (CHOOSE j \in stops : \A k \in stops : j <= k) - i

\* re.sub(r"[chars]{least,}", repl, s), from position i on: a run of at
\* least `least` characters of chars is replaced, every other run is kept
RECURSIVE SubRuns(_, _, _, _, _)
SubRuns(s, chars, least, repl, i) ==
    IF i > Len(s) THEN ""
    ELSE LET n == RunLength(s, chars, i)
             m == RunLengthNot(s, chars, i)
         IN  IF n >= least THEN repl \o SubRuns(s, chars, least, repl, i + n)
             ELSE IF n > 0
             THEN SubSeq(s, i, i + n - 1) \o SubRuns(s, chars, least, repl, i + n)
             ELSE SubSeq(s, i, i + m - 1) \o SubRuns(s, chars, least, repl, i + m)

\* s.split(sep) for a one-character sep, from position i on with piece begun
RECURSIVE SplitOn(_, _, _, _)
SplitOn(s, sep, i, piece) ==
    IF i > Len(s) THEN <<piece>>
    ELSE IF CharAt(s, i) = sep THEN <<piece>> \o SplitOn(s, sep, i + 1, "")
    ELSE LET m == RunLengthNot(s, {sep}, i)
         IN  SplitOn(s, sep, i + m, piece \o SubSeq(s, i, i + m - 1))

\* [x.strip() for x in parts], then the non-empty ones
StrippedNonEmpty(parts) ==
    SelectSeq([k \in 1..Len(parts) |-> Strip(parts[k])], LAMBDA line : Len(line) > 0)

_clean_text(text) ==
    LET t1 == SubRuns(text, {"\n"}, 3, "\n\n", 1)
        t2 == SubRuns(t1, {" ", "\t"}, 1, " ", 1)
        lines == StrippedNonEmpty(SplitOn(t2, "\n", 1, ""))
    IN  Strip(Join("\n", lines))

unwanted_classes ==
    <<"ad", "advertisement", "sidebar", "menu", "navigation", "nav", "footer", "header",
      "social", "share", "comments", "related", "recommended", "popup", "modal">>

\* re.compile(name, re.IGNORECASE) searched in a value: name is lower case
SearchIgnoreCase(name, value) == Contains(Lower(value), name)

\* whether find_all with the filter f finds the element
Matches(element, f) ==
    IF f.attr = "tag" THEN element.tag \in f.names
    ELSE IF f.attr = "class"
    THEN \E k \in 1..Len(element.class) : SearchIgnoreCase(f.name, element.class[k])
    ELSE element.id # None /\ SearchIgnoreCase(f.name, element.id[1])

\* for element in soup.find_all(f): element.decompose(), on a list of siblings
RECURSIVE Decompose(_, _)
Decompose(elements, f) ==
    IF Len(elements) = 0 THEN <<>>
    ELSE (IF Matches(Head(elements), f) THEN <<>>
          ELSE <<[Head(elements) EXCEPT !.kids = Decompose(@, f)]>>)
         \o Decompose(Tail(elements), f)

\* a variant of UnwantedPasses without the loop over ids
UnwantedPassesNoIds ==
    <<[attr |-> "tag", names |-> {"script", "style", "noscript"}],
      [attr |-> "tag", names |-> {"nav", "header", "footer", "aside"}]>>
    \o [k \in 1..Len(unwanted_classes) |-> [attr |-> "class", name |-> unwanted_classes[k]]]

\* the loops of _remove_unwanted_elements, in order
UnwantedPasses ==
    <<[attr |-> "tag", names |-> {"script", "style", "noscript"}],
      [attr |-> "tag", names |-> {"nav", "header", "footer", "aside"}]>>
    \o [k \in 1..Len(unwanted_classes) |-> [attr |-> "class", name |-> unwanted_classes[k]]]
    \o [k \in 1..Len(unwanted_classes) |-> [attr |-> "id", name |-> unwanted_classes[k]]]

\* the passes in order: the first half of them, then the others on what the
\* first half kept (nothing is left to search once the tree is empty)
RECURSIVE DecomposeAll(_, _)
DecomposeAll(elements, passes) ==
    IF Len(passes) = 0 THEN elements
    ELSE IF Len(passes) = 1 THEN Decompose(elements, passes[1])
    ELSE LET half == Len(passes) \div 2
             kept == DecomposeAll(elements, SubSeq(passes, 1, half))
         IN  IF Len(kept) = 0 THEN <<>>
             ELSE DecomposeAll(kept, SubSeq(passes, half + 1, Len(passes)))

_remove_unwanted_elements(soup) == DecomposeAll(soup, UnwantedPasses)

\* the strings of the elements, in document order
RECURSIVE Strings(_)
Strings(elements) ==
    IF Len(elements) = 0 THEN <<>>
    ELSE <<Head(elements).text>> \o Strings(Head(elements).kids) \o Strings(Tail(elements))

\* soup.get_text(separator="\n", strip=True)
get_text(soup) == Join("\n", StrippedNonEmpty(Strings(soup)))

\* a variant of ExtractFailure that wraps every exception
ExtractFailureRewrapped(exc) ==
    ExtractionError("Failed to extract content: " \o exc.text, "EXTRACTION_FAILED")

\* lines 89-96: what the except clauses raise for an exception of the try block
ExtractFailure(exc) ==
    IF exc.type = "ExtractionError" THEN exc
    ELSE ExtractionError("Failed to extract content: " \o exc.text, "EXTRACTION_FAILED")

\* extract(html, url) of a ContentExtractor with the two lengths; parse is what
\* Document(html) and BeautifulSoup(content_html, "lxml") give for the html
extract(html, parse, min_content_length, max_content_length) ==
    IF Len(html) = 0 \/ Len(Strip(html)) = 0
    THEN [out |-> Raised(ExtractionError("Empty HTML content provided", "EMPTY_CONTENT")),
          parsed |-> FALSE, text |-> None]
    ELSE IF parse.raised
    THEN [out |-> Raised(ExtractFailure(parse.exc)), parsed |-> TRUE, text |-> None]
    ELSE
        LET text == get_text(_remove_unwanted_elements(parse.value.soup))
            cleaned_text == _clean_text(text)
        IN  [parsed |-> TRUE,
             text |-> Some(text),
             out |-> IF Len(cleaned_text) < min_content_length
                     THEN Raised(ExtractFailure(ExtractionError(
                                "Insufficient content extracted ("
                                    \o ToString(Len(cleaned_text)) \o " chars, minimum "
                                    \o ToString(min_content_length) \o ")",
                                "INSUFFICIENT_CONTENT")))
                     ELSE Returned(
                            <<IF Len(cleaned_text) > max_content_length
                              THEN PyPrefix(cleaned_text, max_content_length) \o "..."
                              ELSE cleaned_text,
                              parse.value.title>>)]

\* tag, class tokens and id of the elements of the sample documents
SampleAttrs ==
    {[tag |-> "p", class |-> <<>>, id |-> None],
     [tag |-> "nav", class |-> <<>>, id |-> None],
     [tag |-> "script", class |-> <<>>, id |-> None],
     [tag |-> "div", class |-> <<"Sidebar-left">>, id |-> None],
     [tag |-> "div", class |-> <<"content", "shADow">>, id |-> None],
     [tag |-> "div", class |-> <<>>, id |-> Some("TopNav")],
     [tag |-> "div", class |-> <<"main">>, id |-> Some("article")],
     [tag |-> "section", class |-> <<"story">>, id |-> Some("intro")]}

SampleInnerAttrs ==
    {[tag |-> "p", class |-> <<>>, id |-> None],
     [tag |-> "aside", class |-> <<>>, id |-> None],
     [tag |-> "span", class |-> <<"btn", "SHARE-this">>, id |-> None]}

\* the soups: a wrapper with two children, the first of which has a child
Soups ==
    {<<Element("div", <<>>, None, "",
         <<Element(a.tag, a.class, a.id, "Alpha  report",
              <<Element(g.tag, g.class, g.id, "inner\n\n\n\ndetail ", <<>>)>>),
           Element(b.tag, b.class, b.id, " Beta\tline", <<>>)>>)>> :
        a \in SampleAttrs, g \in SampleInnerAttrs, b \in SampleAttrs}

\* what parsing a non-blank html gives
ParseOutcomes ==
    {Returned([title |-> "A page", soup |-> soup]) : soup \in Soups}
    \cup {Raised(Exc("Unparseable", "Document is empty"))}

HtmlInputs == {"", " \n\t ", "<html><body>a page</body></html>"}

\* (min_content_length, max_content_length) of the extractor
ExtractorLengths == {<<0, 8>>, <<5, 20>>, <<12, 8>>, <<5, 100>>}

ExtractInit ==
    /\ e_pc = "idle"
    /\ e_args = [html |-> ""]
    /\ e_out = [out |-> Returned(<<>>), parsed |-> FALSE, text |-> None]

Extract ==
    /\ e_pc = "idle"
    /\ \E html \in HtmlInputs, parse \in ParseOutcomes, lengths \in ExtractorLengths :
         /\ e_args' = [html |-> html, parse |-> parse,
                       min_content_length |-> lengths[1],
                       max_content_length |-> lengths[2]]
         /\ e_out' = extract(html, parse, lengths[1], lengths[2])
    /\ e_pc' = "extracted"
    /\ UNCHANGED notExtract

(***************************************************************************)
(* topic_aggregator.py: one call of _generate_hashtags.  A set of up to    *)
(* FullListingLimit tags is listed in every order; a larger one in the     *)
(* rotations of the order in which the code added the tags and of its      *)
(* reverse, which put every tag at every place.                            *)
(***************************************************************************)
FullListingLimit == 5

\* seq without the later occurrences of an element
RECURSIVE Dedupe(_, _)
Dedupe(seq, seen) ==
    IF Len(seq) = 0 THEN <<>>
    ELSE IF Head(seq) \in seen THEN Dedupe(Tail(seq), seen)
    ELSE <<Head(seq)>> \o Dedupe(Tail(seq), seen \cup {Head(seq)})

\* the tags in the order of the hashtags.add calls, each once
InsertionOrder(topic_arg) ==
    LET topic_words == Split(ReplaceChar(ReplaceChar(topic_arg, "-", " "), "_", " "))
        long_words == SelectSeq(topic_words, LAMBDA word : Len(word) > 3)
    IN  Dedupe([i \in 1..Len(long_words) |-> "#" \o Capitalize(long_words[i])]
                    \o <<"#TechNews", "#Innovation", "#DigitalTransformation">>, {})

Rotated(seq, k) == [i \in 1..Len(seq) |-> seq[((i + k - 1) % Len(seq)) + 1]]

Reversed(seq) == [i \in 1..Len(seq) |-> seq[Len(seq) + 1 - i]]

\* orders in which list(hashtags) can list the set built for the topic
TagListings(topic_arg) ==
    IF Cardinality(HashtagSet(topic_arg)) <= FullListingLimit
    THEN Listings(HashtagSet(topic_arg))
    ELSE LET order == InsertionOrder(topic_arg)
         IN  {Rotated(order, k) : k \in 0..(Len(order) - 1)}
                \cup {Rotated(Reversed(order), k) : k \in 0..(Len(order) - 1)}

\* the topics _generate_hashtags is called with
TagTopics ==
    {"ai", "deep-learning_ai", "technews TECHNEWS big_data", "open source  tools",
     "quantum computing machine learning neural network cloud security"}

TagInit ==
    /\ h_pc = "idle"
    /\ h_args = [topic |-> ""]
    /\ h_out = <<>>

GenerateHashtags ==
    /\ h_pc = "idle"
    /\ \E t \in TagTopics :
         \E listing \in TagListings(t) :
            /\ h_args' = [topic |-> t, listing |-> listing]
            /\ h_out' = _generate_hashtags(t, <<>>, listing)
    /\ h_pc' = "tagged"
    /\ UNCHANGED notTags

(***************************************************************************)
(* summarizer.py: AISummarizer.summarize.  The generative model is a       *)
(* collaborator that answers with a response body or raises.  json.loads   *)
(* is modelled by a reader of JSON without escapes, signs and fractions.   *)
(* A JSON value is a record with its Python type t and its value v; a dict *)
(* is a function from its keys.                                            *)
(***************************************************************************)
JStr(text) == [t |-> "str", v |-> text]

JList(items) == [t |-> "list", v |-> items]

JDict(d) == [t |-> "dict", v |-> d]

JInt(n) == [t |-> "int", v |-> n]

JLiteral(type) == [t |-> type, v |-> <<>>]

ParseFail == [ok |-> FALSE, value |-> JLiteral("NoneType"), next |-> 0]

ParseOk(value, next) == [ok |-> TRUE, value |-> value, next |-> next]

\* the first position >= i of s that holds no white space
RECURSIVE SkipSpace(_, _)
SkipSpace(s, i) ==
    IF i <= Len(s) /\ CharAt(s, i) \in Whitespace THEN SkipSpace(s, i + 1) ELSE i

\* the literal word starts at position i of s
WordAt(s, i, word) == SubSeq(s, i, Min(i + Len(word) - 1, Len(s))) = word

DigitSet == {CharAt(Digits, i) : i \in 1..10}

\* int(digits)
RECURSIVE IntOf(_)
IntOf(digits) ==
    IF Len(digits) = 0 THEN 0
    ELSE 10 * IntOf(SubSeq(digits, 1, Len(digits) - 1))
            + ((CHOOSE k \in 1..10 : CharAt(Digits, k) = CharAt(digits, Len(digits))) - 1)

\* the string that starts with the quote at position i
ParseString(s, i) ==
    LET close == FindAny(s, {"\""}, i + 1)
    IN  IF close = 0 THEN ParseFail
        ELSE ParseOk(JStr(SubSeq(s, i + 1, close - 1)), close + 1)

\* the dict of the members read, a later member replacing an earlier one of
\* the same key
DictOf(members) ==
    [key \in {members[n][1] : n \in 1..Len(members)} |->
        members[CHOOSE n \in 1..Len(members) :
                    /\ members[n][1] = key
                    /\ \A m \in (n + 1)..Len(members) : members[m][1] # key][2]]

RECURSIVE ParseValue(_, _)
RECURSIVE ParseItems(_, _, _)
RECURSIVE ParseMembers(_, _, _)

\* the JSON value that starts at or after position from, and where it ends
ParseValue(s, from) ==
    LET i == SkipSpace(s, from)
    IN  IF i > Len(s) THEN ParseFail
        ELSE IF CharAt(s, i) = "\"" THEN ParseString(s, i)
        ELSE IF CharAt(s, i) \in DigitSet
        THEN LET n == RunLength(s, DigitSet, i)
             IN  ParseOk(JInt(IntOf(SubSeq(s, i, i + n - 1))), i + n)
        ELSE IF CharAt(s, i) = "["
        THEN LET j == SkipSpace(s, i + 1)
             IN  IF j <= Len(s) /\ CharAt(s, j) = "]"
                 THEN ParseOk(JList(<<>>), j + 1)
                 ELSE ParseItems(s, i + 1, <<>>)
        ELSE IF CharAt(s, i) = "{"
        THEN LET j == SkipSpace(s, i + 1)
             IN  IF j <= Len(s) /\ CharAt(s, j) = "}"
                 THEN ParseOk(JDict(<<>>), j + 1)
                 ELSE ParseMembers(s, i + 1, <<>>)
        ELSE IF WordAt(s, i, "null") THEN ParseOk(JLiteral("NoneType"), i + 4)
        ELSE IF WordAt(s, i, "true") THEN ParseOk(JLiteral("bool"), i + 4)
        ELSE IF WordAt(s, i, "false") THEN ParseOk(JLiteral("bool"), i + 5)
        ELSE ParseFail

\* the items of a list from position from on, after the items read
ParseItems(s, from, items) ==
    LET item == ParseValue(s, from)
        j == SkipSpace(s, item.next)
    IN  IF ~item.ok \/ j > Len(s) THEN ParseFail
        ELSE IF CharAt(s, j) = "," THEN ParseItems(s, j + 1, Append(items, item.value))
        ELSE IF CharAt(s, j) = "]" THEN ParseOk(JList(Append(items, item.value)), j + 1)
        ELSE ParseFail

\* the members of an object from position from on, after the members read
ParseMembers(s, from, members) ==
    LET k == SkipSpace(s, from)
        key == IF k <= Len(s) /\ CharAt(s, k) = "\"" THEN ParseString(s, k) ELSE ParseFail
        colon == SkipSpace(s, key.next)
        member == IF key.ok /\ colon <= Len(s) /\ CharAt(s, colon) = ":"
                  THEN ParseValue(s, colon + 1) ELSE ParseFail
        j == SkipSpace(s, member.next)
        read == Append(members, <<key.value.v, member.value>>)
    IN  IF ~member.ok \/ j > Len(s) THEN ParseFail
        ELSE IF CharAt(s, j) = "," THEN ParseMembers(s, j + 1, read)
        ELSE IF CharAt(s, j) = "}" THEN ParseOk(JDict(DictOf(read)), j + 1)
        ELSE ParseFail

\* json.loads(s): the value when the whole of s is one JSON value
json_loads(s) ==
    LET parsed == ParseValue(s, 1)
    IN  IF parsed.ok /\ SkipSpace(s, parsed.next) > Len(s)
        THEN Returned(parsed.value)
        ELSE Raised(Exc("JSONDecodeError", "Expecting value"))

\* the last position of s that holds a character of chars, or 0
FindLast(s, chars) ==
    LET hits == {i \in 1..Len(s) : CharAt(s, i) \in chars}
    IN  IF hits = {} THEN 0 ELSE CHOOSE i \in hits : \A j \in hits : i >= j

\* re.search(r"\{.*\}", text, re.DOTALL): from the first opening brace to the
\* last closing brace after it; None without such a pair
BraceMatch(text) ==
    LET open == FindAny(text, {"{"}, 1)
        close == FindLast(text, {"}"})
    IN  IF open > 0 /\ close > open THEN Some(SubSeq(text, open, close)) ELSE None

\* the basic structure _extract_from_text ends with
SyntheticResult(text) ==
    JDict([summary |-> JStr(IF Len(text) > 500 THEN SubSeq(text, 1, 500) ELSE text),
           key_points |-> JList(<<JStr("Unable to extract structured data")>>),
           category |-> JStr("Unknown")])

_extract_from_text(text) ==
    LET json_match == BraceMatch(text)
    IN  IF json_match # None /\ ~json_loads(json_match[1]).raised
        THEN json_loads(json_match[1]).value
        ELSE SyntheticResult(text)

SummarizationError(message, error_code) ==
    [type |-> "SummarizationError", text |-> message, error_code |-> error_code]

\* the classification with the API check made before the timeout check
SummarizeFailureApiFirst(message, timeout) ==
    IF Contains(Lower(message), "api") \/ Contains(Lower(message), "quota")
    THEN SummarizationError("AI API error: " \o message, "AI_API_ERROR")
    ELSE IF Contains(Lower(message), "timeout")
    THEN SummarizationError("AI request timeout after " \o ToString(timeout) \o " seconds",
                            "AI_TIMEOUT")
    ELSE SummarizationError("Failed to summarize content: " \o message,
                            "SUMMARIZATION_FAILED")

\* lines 125-147: the SummarizationError for an exception of the try block
\* whose text is message
SummarizeFailure(message, timeout) ==
    IF Contains(Lower(message), "timeout")
    THEN SummarizationError("AI request timeout after " \o ToString(timeout) \o " seconds",
                            "AI_TIMEOUT")
    ELSE IF Contains(Lower(message), "api") \/ Contains(Lower(message), "quota")
    THEN SummarizationError("AI API error: " \o message, "AI_API_ERROR")
    ELSE SummarizationError("Failed to summarize content: " \o message,
                            "SUMMARIZATION_FAILED")

\* the text of the TypeError of result["tokens_used"] = ... on a result that
\* is not a dict
ItemAssignmentError(type) ==
    IF type = "list" THEN "list indices must be integers or slices, not str"
    ELSE "'" \o type \o "' object does not support item assignment"

\* the dict d after d[key] = value
DictSet(d, key, value) ==
    [k \in DOMAIN d \cup {key} |-> IF k = key THEN value ELSE d[k]]

\* AISummarizer.summarize(text, model=model, timeout=timeout): answer is what
\* generate_content does, usage the response's usage_metadata (None when the
\* response has none)
AISummarizer_summarize(text, model, timeout, answer, usage) ==
    IF Len(text) = 0 \/ Len(Strip(text)) < 50
    THEN Raised(SummarizationError("Text is too short to summarize", "TEXT_TOO_SHORT"))
    ELSE IF answer.raised
    THEN Raised(SummarizeFailure(answer.exc.text, timeout))
    ELSE
        LET content == answer.value
            strict == json_loads(content)
            parsed == IF ~strict.raised THEN strict.value ELSE _extract_from_text(content)
            tokens_used == IF usage = None THEN 0
                           ELSE usage[1].prompt_token_count
                                    + usage[1].candidates_token_count
        IN  IF parsed.t # "dict"
            THEN Raised(SummarizeFailure(ItemAssignmentError(parsed.t), timeout))
            ELSE Returned(DictSet(DictSet(parsed.v, "tokens_used", JInt(tokens_used)),
                                  "model_used", JStr(model)))

\* lines 64-96: generate_content is called once, after the length check
generate_content_calls(text) ==
    IF Len(text) = 0 \/ Len(Strip(text)) < 50 THEN 0 ELSE 1

\* response bodies of the generative model
ResponseBodies ==
    {"{\"summary\": \"S.\", \"key_points\": [\"a\", \"b\"], \"category\": \"Tech\"}",
     " {\"summary\": \"S.\", \"tokens_used\": 5} \n",
     "Here it is: {\"summary\": \"S.\", \"key_points\": [\"a\"]} Done.",
     "I cannot {do} that",
     "{\"summary\": \"S.\"} and {\"x\": 1}",
     "{\"summary\": \"S.\",}",
     "plain text",
     "",
     "{}",
     "[\"a\", \"b\"]",
     "\"just a string\"",
     "42",
     "null",
     Repeat("long text ", 60)}

\* what generate_content does: a response with a body, or an exception
ModelAnswers ==
    {Returned(body) : body \in ResponseBodies}
    \cup {Raised(Exc("Exception", text)) :
            text \in {"Deadline exceeded: Timeout of 30s", "429 Quota exceeded",
                      "Gemini API request TIMEOUT", "rapid failure",
                      "connection reset", ""}}

UsageMetadata == {None, Some([prompt_token_count |-> 100, candidates_token_count |-> 20])}

SummarizerTexts == {Repeat("word ", 30), "too short", "", Repeat(" ", 60) \o "padded"}

SummarizerModels == {"models/gemini-2.5-flash", "gemini-1.5-pro"}

\* summarize(..., timeout=30), the default
SummarizeTimeout == 30

SumInit ==
    /\ s_pc = "idle"
    /\ s_args = [text |-> ""]
    /\ s_out = Returned(<<>>)
    /\ s_calls = 0

Summarize ==
    /\ s_pc = "idle"
    /\ \E text \in SummarizerTexts, model \in SummarizerModels, answer \in ModelAnswers,
          usage \in UsageMetadata :
         /\ s_args' = [text |-> text, model |-> model, answer |-> answer, usage |-> usage]
         /\ s_out' = AISummarizer_summarize(text, model, SummarizeTimeout, answer, usage)
         /\ s_calls' = generate_content_calls(text)
    /\ s_pc' = "summarized"
    /\ UNCHANGED notSum

(***************************************************************************)
(* api.py: the two export endpoints.                                       *)
(***************************************************************************)
\* fastapi.HTTPException(status_code, detail); its str() is "<code>: <detail>"
HTTPException(status_code, detail) ==
    [type |-> "HTTPException", status_code |-> status_code, detail |-> detail,
     text |-> ToString(status_code) \o ": " \o detail]

StreamingResponse(media_type, filename) ==
    [status_code |-> 200, media_type |-> media_type,
     disposition |-> "attachment; filename=" \o filename]

\* lines 731-806 and 936-1005: the branch on request.export_format, after the
\* aggregation returned; generate is what the SpreadsheetGenerator does
ExportBranch(request, generate) ==
    IF request.export_format = None
    THEN Raised(Exc("AttributeError", "'NoneType' object has no attribute 'lower'"))
    ELSE
        LET export_format == Lower(request.export_format[1])
        IN  IF export_format \in {"csv", "excel", "pdf"}
            THEN IF generate.raised THEN generate
                 ELSE Returned(StreamingResponse(
                        CASE export_format = "csv" -> "text/csv"
                          [] export_format = "excel" ->
                               "application/vnd.openxmlformats-officedocument.spreadsheetml.sheet"
                          [] OTHER -> "application/pdf",
                        request.topic \o
                            (CASE export_format = "csv" -> "_social_media.csv"
                               [] export_format = "excel" -> "_social_media.xlsx"
                               [] OTHER -> "_report.pdf")))
            ELSE Raised(HTTPException(400,
                    "Unsupported export format: " \o export_format
                        \o ". Use 'csv', 'excel', or 'pdf'"))

\* lines 808-812: every exception of the try block, the HTTPException of the
\* unsupported format included, becomes a 500
ExportFailed(e) == Raised(HTTPException(500, "Export failed: " \o e.text))

\* POST /aggregate-topic/export (lines 708-812)
aggregate_topic_export(initialized, request, aggregate, generate) ==
    IF ~initialized
    THEN Raised(HTTPException(500,
            "Agent not initialized. Please set GEMINI_API_KEY in .env file"))
    ELSE IF aggregate.raised THEN ExportFailed(aggregate.exc)
    ELSE LET answer == ExportBranch(request, generate)
         IN  IF answer.raised THEN ExportFailed(answer.exc) ELSE answer

\* POST /search-and-aggregate/export (lines 884-1013); search is what the
\* WebSearcher returns after the domain filter
search_and_aggregate_export(initialized, request, search, aggregate, generate) ==
    IF ~initialized
    THEN Raised(HTTPException(500,
            "Services not initialized. Please set GEMINI_API_KEY in .env file"))
    ELSE IF search.raised THEN ExportFailed(search.exc)
    ELSE IF Len(search.value) = 0
    THEN Raised(HTTPException(404, "No search results found for the topic"))
    ELSE IF aggregate.raised THEN ExportFailed(aggregate.exc)
    ELSE LET answer == ExportBranch(request, generate)
         IN  IF answer.raised /\ answer.exc.type # "HTTPException"
             THEN ExportFailed(answer.exc)
             ELSE answer

ExportEndpoints == {"/aggregate-topic/export", "/search-and-aggregate/export"}

ExportFormats ==
    {Some(f) : f \in {"csv", "CSV", "excel", "Pdf", "json", "xlsx", ""}} \cup {None}

SearchOutcomes ==
    {Returned(<<>>), Returned(<<"https://a.example/1">>),
     Raised(Exc("WebSearchError", "All search methods failed"))}

AggregateOutcomes ==
    {Returned("result"), Raised(Exc("RuntimeError", "cannot schedule new futures"))}

GenerateOutcomes == {Returned("file"), Raised(Exc("ImportError", "reportlab is required"))}

ExportInit ==
    /\ x_pc = "idle"
    /\ x_args = [endpoint |-> ""]
    /\ x_out = Returned(<<>>)

Export ==
    /\ x_pc = "idle"
    /\ \E endpoint \in ExportEndpoints, initialized \in BOOLEAN,
          export_format \in ExportFormats, search \in SearchOutcomes,
          aggregate \in AggregateOutcomes, generate \in GenerateOutcomes :
         LET request == [topic |-> "ai", export_format |-> export_format]
         IN  /\ x_args' = [endpoint |-> endpoint, initialized |-> initialized,
                           request |-> request, search |-> search,
                           aggregate |-> aggregate, generate |-> generate]
             /\ x_out' = IF endpoint = "/aggregate-topic/export"
                         THEN aggregate_topic_export(initialized, request, aggregate,
                                                     generate)
                         ELSE search_and_aggregate_export(initialized, request, search,
                                                          aggregate, generate)
    /\ x_pc' = "answered"
    /\ UNCHANGED notExport

(***************************************************************************)
(* One construction of SummaryOptions or of SummaryRequest.                *)
(***************************************************************************)
SentenceCounts == {-1, 0, 1, 4, 10, 11, 100}

KeyPointCounts == {0, 1, 10, 11}

ModelNames ==
    allowed_models \cup {"models/gemini-2.5-flash", "Gemini-1.5-Flash", "gpt-4", ""}

\* the keyword arguments of one SummaryOptions(...) call: each given or left out
OptionsCalls ==
    LET given(name, values) == {<<>>} \cup {[k \in {name} |-> v] : v \in values}
    IN  {s @@ k @@ m : s \in given("max_summary_sentences", SentenceCounts),
                       k \in given("num_key_points", KeyPointCounts),
                       m \in given("model", ModelNames)}

RequestUrls ==
    {"https://example.com", "http://example.com", "HTTP://Example.COM/Path",
     "Http://example.com/?next=http://b.example", "http://example.com:80/a",
     "http://example.com:443/a", "http://example.com:8080", "http:example.com",
     "https://ok.example/a", "http://plain.example/b",
     "ftp://example.com", "http://", "//example.com", "example.com", "not-a-url", ""}

ModelInit ==
    /\ m_pc = "idle"
    /\ m_call = [cls |-> ""]
    /\ m_out = Returned(<<>>)

ConstructOptions ==
    /\ m_pc = "idle"
    /\ \E kw \in OptionsCalls :
         /\ m_call' = [cls |-> "SummaryOptions", kw |-> kw]
         /\ m_out' = SummaryOptions(kw)
    /\ m_pc' = "constructed"
    /\ UNCHANGED notModels

ConstructRequest ==
    /\ m_pc = "idle"
    /\ \E url \in RequestUrls :
         /\ m_call' = [cls |-> "SummaryRequest", url |-> url]
         /\ m_out' = SummaryRequest(url, Some(SummaryOptions(<<>>).value))
    /\ m_pc' = "constructed"
    /\ UNCHANGED notModels

(***************************************************************************)
(* web_searcher.py: WebSearcher.search.  The backend is a collaborator:    *)
(* one attempt hands over an iterable that yields some raw results and     *)
(* then ends or raises (a call that raises at once yields none).  A raw    *)
(* result is a dict, a function from keys to strings, or something else.   *)
(***************************************************************************)
WebSearchError(message, error_code) ==
    [type |-> "WebSearchError", text |-> message, error_code |-> error_code]

\* result.get(key) or "": a missing key and an empty value are both falsy
GetOrEmpty(d, key) == IF key \in DOMAIN d THEN d[key] ELSE ""

\* a or b of two strings
OrElse(a, b) == IF a # "" THEN a ELSE b

\* lines 56-63: the entries one raw result adds to results
Converted(raw) ==
    LET url == OrElse(GetOrEmpty(raw.d, "href"),
                      OrElse(GetOrEmpty(raw.d, "url"), GetOrEmpty(raw.d, "link")))
    IN  IF raw.is_dict /\ url # ""
        THEN <<[title |-> GetOrEmpty(raw.d, "title"), url |-> url,
                snippet |-> OrElse(GetOrEmpty(raw.d, "body"),
                                   GetOrEmpty(raw.d, "snippet"))]>>
        ELSE <<>>

RECURSIVE ConvertedAll(_)
ConvertedAll(raws) ==
    IF Len(raws) = 0 THEN <<>>
    ELSE Converted(raws[1]) \o ConvertedAll(SubSeq(raws, 2, Len(raws)))

\* lines 55-63 and 75-83: the loop of one attempt appends to the results list
\* of the call, up to the point where the iterable ends or raises
AttemptLoop(results, attempt) == results \o ConvertedAll(attempt.yields)

\* WebSearcher.search(query): the outcome and the backend calls made
search(installed, first, second) ==
    LET after_first == AttemptLoop(<<>>, first)
        after_second == AttemptLoop(after_first, second)
    IN  IF ~installed
        THEN [out |-> Raised(WebSearchError(
                        "duckduckgo-search is not installed. Install with: pip install duckduckgo-search",
                        "MISSING_DEPENDENCY")),
              calls |-> <<>>]
        ELSE IF first.raises = None
        THEN [out |-> Returned(after_first), calls |-> <<"api">>]
        ELSE IF second.raises = None
        THEN [out |-> Returned(after_second), calls |-> <<"api", "default">>]
        ELSE [out |-> Raised(WebSearchError(
                        "Search failed: " \o first.raises[1]
                            \o ". Fallback also failed: " \o second.raises[1],
                        "SEARCH_FAILED")),
              calls |-> <<"api", "default">>]

RawResults ==
    {[is_dict |-> TRUE, d |-> [href |-> "https://a.example/1", title |-> "A", body |-> "a"]],
     [is_dict |-> TRUE, d |-> [url |-> "https://b.example/2", snippet |-> "b", body |-> ""]],
     [is_dict |-> TRUE, d |-> [title |-> "no address", href |-> ""]],
     [is_dict |-> FALSE, d |-> <<>>]}

MaxYields == 2

\* what one attempt does: the raw results it yields, then the end of the
\* iterable (None) or an exception with a text
Attempts ==
    {[yields |-> y, raises |-> r] :
        y \in UNION {[1..n -> RawResults] : n \in 0..MaxYields},
        r \in {None, Some("RatelimitException")}}

SearchInit ==
    /\ w_pc = "idle"
    /\ w_args = [installed |-> TRUE]
    /\ w_out = [out |-> Returned(<<>>), calls |-> <<>>]

Search ==
    /\ w_pc = "idle"
    /\ \E installed \in BOOLEAN, first \in Attempts, second \in Attempts :
         /\ w_args' = [installed |-> installed, first |-> first, second |-> second]
         /\ w_out' = search(installed, first, second)
    /\ w_pc' = "searched"
    /\ UNCHANGED notSearch

(***************************************************************************)
(* The specifications.  Each runs one component and leaves the others at   *)
(* rest.                                                                   *)
(***************************************************************************)
AggAtRest ==
    /\ topic = ""
    /\ urls = <<>>
    /\ platforms = None
    /\ max_workers = 0
    /\ agent = "none"
    /\ pc = "rest"
    /\ nsub = 0
    /\ queue = <<>>
    /\ running = {}
    /\ finished = {}
    /\ handed = <<>>
    /\ now = 0
    /\ finishedAt = <<>>
    /\ collected = <<>>
    /\ summaries = <<>>
    /\ result = None
    /\ modelCalls = 0
    /\ synthesis = None
    /\ prompt = None

\* aggregate_topic, time not observed
Init == AggInit /\ RespInit /\ AgentInit /\ PostInit /\ FetchInit /\ ExtractInit /\ TagInit /\ SumInit /\ ExportInit /\ ModelInit /\ SearchInit

Next == AggNext

Spec == Init /\ [][Next]_vars

\* aggregate_topic with pool threads and a caller that keep running, and Agent
\* invocations that return or raise
FairSpec ==
    /\ Spec
    /\ WF_vars(CreatePool)
    /\ WF_vars(Submit)
    /\ WF_vars(WorkerTake)
    /\ \A i \in 1..MaxUrls : WF_vars(WorkerFinish(i))

\* the calling thread has a step to take: it creates the pool, submits the
\* next URL, enters as_completed, runs the loop body for a done future not yet
\* yielded, or builds the result
CallerEnabled ==
    \/ pc \in {"start", "submit"}
    \/ /\ pc = "collect"
       /\ \/ Len(collected) = Len(urls)
          \/ \E i \in finished : \A k \in 1..Len(collected) : collected[k] # i

\* a step of the calling thread: each one changes pc, nsub or collected
CallerStep == pc' # pc \/ nsub' # nsub \/ collected' # collected

\* the pool has a step to take: a free thread and a queued task, or a running
\* Agent invocation, which returns or raises
PoolEnabled ==
    \/ pc \in {"submit", "collect"} /\ Len(queue) > 0 /\ ThreadAvailable
    \/ running # {}

\* a step of the pool: a task starts or ends
PoolStep == running' # running

\* aggregate_topic with a calling thread and a pool that keep running: weak
\* fairness of each, written with its enabling condition
SpecLive ==
    /\ Spec
    /\ ([]<>~CallerEnabled \/ []<><<CallerStep>>_vars)
    /\ ([]<>~PoolEnabled \/ []<><<PoolStep>>_vars)

\* aggregate_topic with the clock observed, called without a platform list
TimedInit == Init /\ platforms = None

TimedNext == AggNext \/ Tick

SpecTimed == TimedInit /\ [][TimedNext]_vars

\* SummaryResponse construction
ResponseInit == AggAtRest /\ RespInit /\ AgentInit /\ PostInit /\ FetchInit /\ ExtractInit /\ TagInit /\ SumInit /\ ExportInit /\ ModelInit /\ SearchInit

SpecResponse == ResponseInit /\ [][Construct]_vars

\* the Agent's entry points
AgentEntryInit == AggAtRest /\ RespInit /\ AgentInit /\ PostInit /\ FetchInit /\ ExtractInit /\ TagInit /\ SumInit /\ ExportInit /\ ModelInit /\ SearchInit

AgentNext == CallSummarize \/ CallSummarizeUrl

SpecAgent == AgentEntryInit /\ [][AgentNext]_vars

\* the post templates
PostsInit == AggAtRest /\ RespInit /\ AgentInit /\ PostInit /\ FetchInit /\ ExtractInit /\ TagInit /\ SumInit /\ ExportInit /\ ModelInit /\ SearchInit

SpecPosts == PostsInit /\ [][GeneratePosts]_vars

\* URLFetcher.fetch
FetchCallInit == AggAtRest /\ RespInit /\ AgentInit /\ PostInit /\ FetchInit /\ ExtractInit /\ TagInit /\ SumInit /\ ExportInit /\ ModelInit /\ SearchInit

SpecFetch == FetchCallInit /\ [][Fetch]_vars

\* ContentExtractor.extract
ExtractCallInit == AggAtRest /\ RespInit /\ AgentInit /\ PostInit /\ FetchInit /\ ExtractInit /\ TagInit /\ SumInit /\ ExportInit /\ ModelInit /\ SearchInit

SpecExtract == ExtractCallInit /\ [][Extract]_vars

\* _generate_hashtags
TagCallInit == AggAtRest /\ RespInit /\ AgentInit /\ PostInit /\ FetchInit /\ ExtractInit /\ TagInit /\ SumInit /\ ExportInit /\ ModelInit /\ SearchInit

SpecTags == TagCallInit /\ [][GenerateHashtags]_vars

\* AISummarizer.summarize
SumCallInit == AggAtRest /\ RespInit /\ AgentInit /\ PostInit /\ FetchInit /\ ExtractInit /\ TagInit /\ SumInit /\ ExportInit /\ ModelInit /\ SearchInit

SpecSummarizer == SumCallInit /\ [][Summarize]_vars

(***************************************************************************)
(* The claims.                                                             *)
(***************************************************************************)
\* the Agent returns a successful response for the URL of task i
AgentSucceeds(i) ==
    LET o == InvokeAgent(agent, urls[i])
    IN  ~o.raised /\ o.value.success

\* K: the number of submitted URLs for which the Agent succeeds
SuccessCount == Cardinality({i \in Tasks : AgentSucceeds(i)})

\* C1: when aggregate_topic returns for N URLs of which the Agent succeeds for
\* K, the result has total_sources = N, successful_summaries = K,
\* failed_summaries = N - K, K rows in data, and the collected summaries hold
\* N entries, one per submitted URL (a URL listed twice counts twice).
C1_Counts ==
    pc = "done" =>
        /\ result[1].total_sources = Len(urls)
        /\ result[1].successful_summaries = SuccessCount
        /\ result[1].failed_summaries = Len(urls) - SuccessCount
        /\ Len(result[1].data) = SuccessCount
        /\ Len(summaries) = Len(urls)
        /\ Len(result[1].summaries) = Len(urls)
        /\ \A i \in Tasks : Cardinality({k \in 1..Len(collected) : collected[k] = i}) = 1

\* a returned aggregation of two URLs, one a success and one a failure
C1_Witness ==
    /\ pc = "done"
    /\ Len(urls) = 2
    /\ SuccessCount = 1

\* C2: an Agent invocation that raises is recorded as the failed response with
\* error_code FETCH_FAILED and the exception text as error; every other
\* invocation is recorded with what it returned; once the aggregation has
\* returned every URL is recorded; and with a pool (max_workers >= 1)
\* aggregate_topic does not raise.
C2_RaiseRecorded ==
    /\ \A k \in 1..Len(collected) :
          LET o == InvokeAgent(agent, urls[collected[k]])
          IN  IF o.raised
              THEN summaries[k] = [success |-> FALSE, data |-> None,
                                   error |-> Some(o.exc.text),
                                   error_code |-> Some("FETCH_FAILED")]
              ELSE summaries[k] = o.value
    /\ Len(summaries) = Len(collected)
    /\ pc = "done" => \A i \in Tasks : \E k \in 1..Len(collected) : collected[k] = i
    /\ max_workers >= 1 => pc # "raised"

\* a returned aggregation in which one invocation raised and another returned
\* a success
C2_Witness ==
    /\ pc = "done"
    /\ \E i \in Tasks : InvokeAgent(agent, urls[i]).raised
    /\ \E i \in Tasks : AgentSucceeds(i)

\* C3 (as claimed): a task whose invocation completes more than 60 time units
\* after the caller began to wait is recorded as a failed response with
\* error_code FETCH_FAILED.
C3_WaitCeiling ==
    \A k \in 1..Len(collected) :
        finishedAt[collected[k]] > 60 =>
            /\ ~summaries[k].success
            /\ summaries[k].error_code = Some("FETCH_FAILED")

\* C4: at most max_workers Agent invocations execute at the same time, no URL is
\* handed to the Agent more than once, and with a pool (max_workers >= 1) every
\* URL is eventually handed to the Agent.
C4_BoundedPool ==
    /\ [](/\ Cardinality(running) <= max_workers
          /\ \A i \in Tasks : handed[i] <= 1)
    /\ (max_workers >= 1 ~> \A i \in Tasks : handed[i] = 1)

\* the pool is saturated while a further URL waits in the queue
C4_Witness ==
    /\ max_workers >= 1
    /\ Cardinality(running) = max_workers
    /\ Len(queue) > 0

\* C5 (as claimed): a call of summarize or summarize_url never raises.
C5_NoRaise == a_pc = "called" => ~a_out.out.raised

\* the call leaves data out or passes None for it
DataAbsent == "data" \notin DOMAIN r_call \/ r_call["data"] = None

\* the call leaves error out or passes None for it
ErrorAbsent == "error" \notin DOMAIN r_call \/ r_call["error"] = None

\* C6 (as claimed): construction fails when success is true and data is absent
\* and when success is false and error is absent, whether the field is passed as
\* None or left out.
C6_AbsentRejected ==
    r_pc = "built" =>
        /\ (r_call["success"] /\ DataAbsent) => r_out.raised
        /\ (~r_call["success"] /\ ErrorAbsent) => r_out.raised

\* C7 (as claimed): an accepted SummaryResponse has data and no error when
\* success is true, error and no data when success is false.
C7_ExactlyOne ==
    (r_pc = "built" /\ ~r_out.raised) =>
        IF r_out.value.success
        THEN r_out.value.data # None /\ r_out.value.error = None
        ELSE r_out.value.error # None /\ r_out.value.data = None

\* C8 (as claimed): the content of the Twitter post is at most 280 characters.
C8_TwitterLimit ==
    p_pc = "generated" => Len(p_posts["twitter"].content) <= 280

\* the LinkedIn text of the current call before its limit is applied
RawLinkedin ==
    linkedin_post_text(p_args.topic, p_args.title, p_args.summary, p_args.key_points,
                       p_args.url,
                       _generate_hashtags(p_args.topic, p_args.key_points, p_args.listing))

\* the Instagram text of the current call before its limit is applied
RawInstagram ==
    instagram_post_text(p_args.summary, p_args.key_points,
                        _generate_hashtags(p_args.topic, p_args.key_points, p_args.listing))

\* content is text cut to limit characters, the last three an ellipsis, when
\* text is longer than limit, and text itself otherwise
CutTo(content, text, limit) ==
    IF Len(text) > limit
    THEN /\ Len(content) = limit
         /\ EndsWith(content, "...")
         /\ StartsWith(text, PyPrefix(content, limit - 3))
    ELSE content = text

\* C9: the LinkedIn content is at most 3000 characters and the Instagram content
\* at most 2200; a longer text is cut and ends with the ellipsis.
C9_Caps ==
    p_pc = "generated" =>
        /\ Len(p_posts["linkedin"].content) <= 3000
        /\ Len(p_posts["instagram"].content) <= 2200
        /\ CutTo(p_posts["linkedin"].content, RawLinkedin, 3000)
        /\ CutTo(p_posts["instagram"].content, RawInstagram, 2200)
        /\ p_posts["linkedin"].character_count = Len(p_posts["linkedin"].content)
        /\ p_posts["instagram"].character_count = Len(p_posts["instagram"].content)

\* both texts are longer than their limits
C9_Witness ==
    /\ p_pc = "generated"
    /\ Len(RawLinkedin) > 3000
    /\ Len(RawInstagram) > 2200

\* C10: with exactly one successful source the master summary is that source's
\* summary and no model call is made; with none it is the fixed sentence naming
\* the topic, again without a model call.
C10_MasterSummaryShortcuts ==
    pc = "done" =>
        /\ SuccessCount = 1 =>
              /\ \A i \in Tasks : AgentSucceeds(i) =>
                    result[1].master_summary = InvokeAgent(agent, urls[i]).value.data[1].summary
              /\ modelCalls = 0
        /\ SuccessCount = 0 =>
              /\ result[1].master_summary
                    = "No articles were successfully summarized for the topic: " \o topic
              /\ modelCalls = 0

\* a returned aggregation of several URLs with exactly one success
C10_Witness ==
    /\ pc = "done"
    /\ Len(urls) >= 2
    /\ SuccessCount = 1

\* C11 (as claimed): with two or more successful sources a returned
\* aggregation has asked the generative model exactly once, with a prompt built
\* from the successful summaries, and when the call returned the master summary
\* is the response text stripped.
C11_SynthesisAsked ==
    (pc = "done" /\ SuccessCount >= 2) =>
        /\ modelCalls = 1
        /\ prompt # None
        /\ synthesis # None
        /\ ~synthesis[1].raised => result[1].master_summary = Strip(synthesis[1].value)

\* the index in the collected list of the first successful response
FirstSuccessIndex ==
    CHOOSE k \in 1..Len(summaries) :
        /\ summaries[k].success
        /\ \A j \in 1..(k - 1) : ~summaries[j].success

\* C12: with two or more successful sources, when the synthesis step raises
\* (the model call fails, or the summarizer has no client) the master summary
\* of the returned aggregation is the summary of the first successful response
\* of the collected list.
C12_SynthesisFallback ==
    (/\ pc = "done"
     /\ SuccessCount >= 2
     /\ synthesis # None
     /\ synthesis[1].raised) =>
        /\ result # None
        /\ result[1].master_summary = summaries[FirstSuccessIndex].data[1].summary

\* a returned aggregation of two sources with different summaries whose model
\* call raised
C12_Witness ==
    /\ pc = "done"
    /\ SuccessCount >= 2
    /\ synthesis # None
    /\ synthesis[1].raised
    /\ Asked(synthesis[1])
    /\ \E i, j \in 1..Len(summaries) :
          /\ summaries[i].success
          /\ summaries[j].success
          /\ summaries[i].data[1].summary # summaries[j].data[1].summary

\* C13 (as claimed): every failure of fetch is a FetchError with one error
\* code: INVALID_URL, with no request issued, for a URL without scheme or
\* host; NOT_FOUND, FORBIDDEN, SERVER_ERROR or HTTP_<status> by the status
\* code; TIMEOUT, REQUEST_FAILED or UNKNOWN_ERROR by the transport exception;
\* a status below 400 returns the body text and the final URL.
C13_ErrorCodes ==
    f_pc = "fetched" =>
        LET out == f_out.out
            parsed == urlparse(f_url)
        IN  /\ out.raised => out.exc.type = "FetchError"
            /\ ~parsed.raised =>
                 IF parsed.value.scheme = "" \/ parsed.value.netloc = ""
                 THEN /\ out.raised
                      /\ out.exc.error_code = "INVALID_URL"
                      /\ f_out.requests = <<>>
                 ELSE IF parsed.value.scheme \notin {"http", "https"}
                 THEN out.raised /\ out.exc.error_code = "REQUEST_FAILED"
                 ELSE IF f_world.kind = "exception"
                 THEN /\ out.raised
                      /\ out.exc.error_code =
                            IF f_world.exc \in {"Timeout", "ConnectTimeout"} THEN "TIMEOUT"
                            ELSE IF f_world.exc \in {"ConnectionError", "TooManyRedirects"}
                            THEN "REQUEST_FAILED"
                            ELSE "UNKNOWN_ERROR"
                 ELSE IF f_world.status >= 400
                 THEN /\ out.raised
                      /\ out.exc.error_code =
                            IF f_world.status = 404 THEN "NOT_FOUND"
                            ELSE IF f_world.status = 403 THEN "FORBIDDEN"
                            ELSE IF f_world.status = 500 THEN "SERVER_ERROR"
                            ELSE "HTTP_" \o ToString(f_world.status)
                 ELSE /\ ~out.raised
                      /\ out.value = <<f_world.text, f_world.url>>

\* C14: one call of fetch issues at most one GET request of its own, none when
\* the URL is rejected before the request, and exactly one, not repeated, when
\* the request ends in an error status, a timeout or a transport exception.
C14_NoRetry ==
    f_pc = "fetched" =>
        /\ Len(f_out.requests) <= 1
        /\ (f_out.out.raised /\ f_out.out.exc.type = "FetchError"
                /\ f_out.out.exc.error_code = "INVALID_URL") => f_out.requests = <<>>
        /\ (f_out.out.raised /\ f_out.out.exc.type = "FetchError"
                /\ f_out.out.exc.error_code # "INVALID_URL") => Len(f_out.requests) = 1

\* a call whose request timed out
C14_Witness ==
    /\ f_pc = "fetched"
    /\ f_world.kind = "exception"
    /\ f_out.out.raised
    /\ f_out.out.exc.type = "FetchError"
    /\ f_out.out.exc.error_code = "TIMEOUT"
    /\ Len(f_out.requests) = 1

\* C15 (as claimed): no request of fetch has scheme http, and for an accepted
\* URL whose scheme is http, in any letter case, the request goes to the URL
\* with the scheme replaced by https.
C15_HttpsOnly ==
    f_pc = "fetched" =>
        /\ \A k \in 1..Len(f_out.requests) :
              urlparse(f_out.requests[k]).value.scheme # "http"
        /\ (/\ ~urlparse(f_url).raised
            /\ urlparse(f_url).value.scheme = "http"
            /\ urlparse(f_url).value.netloc # "") =>
              f_out.requests = <<"https" \o SubSeq(f_url, 5, Len(f_url))>>

\* C16 (as claimed): text returned by extract has at least min_content_length
\* and at most max_content_length + 3 characters, for every html and every
\* pair of configured lengths.
C16_LengthBounds ==
    (e_pc = "extracted" /\ ~e_out.out.raised) =>
        /\ Len(e_out.out.value[1]) >= e_args.min_content_length
        /\ Len(e_out.out.value[1]) <= e_args.max_content_length + 3

\* the tags whose elements are dropped
DroppedTags == {"script", "style", "noscript", "nav", "header", "footer", "aside"}

\* the element's tag is dropped, or its class or id contains a denylist word in
\* any letter case
Denied(element) ==
    \/ element.tag \in DroppedTags
    \/ \E n \in 1..Len(unwanted_classes) :
          \/ \E k \in 1..Len(element.class) :
                Contains(Lower(element.class[k]), unwanted_classes[n])
          \/ element.id # None /\ Contains(Lower(element.id[1]), unwanted_classes[n])

\* the word marking the text of the first child, of its child, of the second child
MarkFirst == "Alpha"

MarkInner == "inner"

MarkSecond == "Beta"

\* the text holds the mark exactly when the mark's element is not gone
KeptIff(text, mark, gone) == Contains(text, mark) <=> ~gone

\* C17: the text of an element that is denied, or lies below a denied element,
\* is in neither the extracted text nor the returned text; the text of every
\* other element is in the extracted text, and in the returned text when that
\* was not cut.
C17_DenylistRemoved ==
    (e_pc = "extracted" /\ e_out.text # None) =>
        LET root == e_args.parse.value.soup[1]
            first == root.kids[1]
            inner == first.kids[1]
            second == root.kids[2]
            text == e_out.text[1]
        IN  /\ KeptIff(text, MarkFirst, Denied(first))
            /\ KeptIff(text, MarkInner, Denied(first) \/ Denied(inner))
            /\ KeptIff(text, MarkSecond, Denied(second))
            /\ ~e_out.out.raised =>
                 LET returned == e_out.out.value[1]
                     whole == Len(returned) <= e_args.max_content_length
                 IN  /\ Denied(first) => ~Contains(returned, MarkFirst)
                     /\ (Denied(first) \/ Denied(inner)) => ~Contains(returned, MarkInner)
                     /\ Denied(second) => ~Contains(returned, MarkSecond)
                     /\ (whole /\ ~Denied(first)) => Contains(returned, MarkFirst)
                     /\ (whole /\ ~Denied(first) /\ ~Denied(inner)) =>
                            Contains(returned, MarkInner)
                     /\ (whole /\ ~Denied(second)) => Contains(returned, MarkSecond)

\* a returned text without the first child, denied by the letters "ad" in a
\* class token, and its child, and with the second child
C17_Witness ==
    /\ e_pc = "extracted"
    /\ ~e_out.out.raised
    /\ e_args.parse.value.soup[1].kids[1].class = <<"content", "shADow">>
    /\ ~Denied(e_args.parse.value.soup[1].kids[1].kids[1])
    /\ e_out.out.value[1] = "Beta line"

\* C18: extract raises nothing but ExtractionError: EMPTY_CONTENT for an empty
\* or blank html, without parsing it; INSUFFICIENT_CONTENT, as raised, for too
\* little cleaned text; EXTRACTION_FAILED for any other exception of parsing.
C18_OnlyExtractionError ==
    e_pc = "extracted" =>
        LET out == e_out.out
            blank == Len(Strip(e_args.html)) = 0
        IN  /\ out.raised =>
                 /\ out.exc.type = "ExtractionError"
                 /\ out.exc.error_code \in
                        {"EMPTY_CONTENT", "INSUFFICIENT_CONTENT", "EXTRACTION_FAILED"}
            /\ blank => (out.raised /\ out.exc.error_code = "EMPTY_CONTENT" /\ ~e_out.parsed)
            /\ (~blank /\ e_args.parse.raised) =>
                 (out.raised /\ out.exc.error_code = "EXTRACTION_FAILED")
            /\ (~blank /\ ~e_args.parse.raised /\ out.raised) =>
                 /\ out.exc.error_code = "INSUFFICIENT_CONTENT"
                 /\ Len(_clean_text(e_out.text[1])) < e_args.min_content_length

\* a call that found too little text
C18_Witness ==
    /\ e_pc = "extracted"
    /\ e_out.parsed
    /\ e_out.out.raised
    /\ e_out.out.exc.error_code = "INSUFFICIENT_CONTENT"

\* C19 (as claimed): for every topic the list of _generate_hashtags holds the
\* three generic tags, has at most 10 entries and holds no tag twice.
C19_HashtagList ==
    h_pc = "tagged" =>
        /\ GenericHashtags \subseteq {h_out[i] : i \in 1..Len(h_out)}
        /\ Len(h_out) <= 10
        /\ \A i, j \in 1..Len(h_out) : h_out[i] = h_out[j] => i = j

\* C20 (as claimed): whenever the generative model returns a response body,
\* summarize returns a dict: the strict parse of the whole body if it parses,
\* otherwise the parse of the brace-delimited substring if there is one and it
\* parses, otherwise the synthetic result; with tokens_used and model_used
\* attached.
C20_ParsePriority ==
    (/\ s_pc = "summarized"
     /\ Len(Strip(s_args.text)) >= 50
     /\ ~s_args.answer.raised) =>
        LET body == s_args.answer.value
            strict == json_loads(body)
            json_match == BraceMatch(body)
            chosen == IF ~strict.raised THEN strict.value
                      ELSE IF json_match # None /\ ~json_loads(json_match[1]).raised
                      THEN json_loads(json_match[1]).value
                      ELSE SyntheticResult(body)
            tokens == IF s_args.usage = None THEN 0 ELSE 120
        IN  /\ ~s_out.raised
            /\ s_out.value["tokens_used"] = JInt(tokens)
            /\ s_out.value["model_used"] = JStr(s_args.model)
            /\ DOMAIN s_out.value = DOMAIN chosen.v \cup {"tokens_used", "model_used"}
            /\ \A key \in DOMAIN chosen.v \ {"tokens_used", "model_used"} :
                  s_out.value[key] = chosen.v[key]

\* C21: summarize raises only SummarizationError, with one code per failure:
\* TEXT_TOO_SHORT, and no model call, when the stripped text is shorter than
\* 50; otherwise, for an exception of the model call, AI_TIMEOUT when its
\* message contains "timeout" in any letter case, else AI_API_ERROR when it
\* contains "api" or "quota", else SUMMARIZATION_FAILED.
C21_SummarizeErrorCodes ==
    s_pc = "summarized" =>
        LET short == Len(Strip(s_args.text)) < 50
            message == Lower(s_args.answer.exc.text)
        IN  /\ s_out.raised => s_out.exc.type = "SummarizationError"
            /\ short => /\ s_out.raised
                        /\ s_out.exc.error_code = "TEXT_TOO_SHORT"
                        /\ s_calls = 0
            /\ (~short /\ s_args.answer.raised) =>
                  /\ s_out.raised
                  /\ s_calls = 1
                  /\ s_out.exc.error_code =
                        IF Contains(message, "timeout") THEN "AI_TIMEOUT"
                        ELSE IF Contains(message, "api") \/ Contains(message, "quota")
                        THEN "AI_API_ERROR"
                        ELSE "SUMMARIZATION_FAILED"
            /\ (~short /\ s_out.raised /\ ~s_args.answer.raised) =>
                  s_out.exc.error_code = "SUMMARIZATION_FAILED"

\* a timeout whose message also names the API is classified AI_TIMEOUT
C21_Witness ==
    /\ s_pc = "summarized"
    /\ s_calls = 1
    /\ s_args.answer.raised
    /\ s_args.answer.exc.text = "Gemini API request TIMEOUT"
    /\ s_out.raised
    /\ s_out.exc.error_code = "AI_TIMEOUT"

\* the export endpoints, one request
ExportCallInit == AggAtRest /\ RespInit /\ AgentInit /\ PostInit /\ FetchInit /\ ExtractInit /\ TagInit /\ SumInit /\ ExportInit /\ ModelInit /\ SearchInit

SpecExport == ExportCallInit /\ [][Export]_vars

\* the HTTP status a request is answered with
AnsweredStatus == IF x_out.raised THEN x_out.exc.status_code ELSE x_out.value.status_code

\* C22 (as claimed): a request to an export endpoint whose export_format is
\* none of csv, excel, pdf (in any letter case), and whose aggregation
\* returned a result, is answered with HTTP 400.
C22_UnsupportedFormat400 ==
    (/\ x_pc = "answered"
     /\ x_args.initialized
     /\ x_args.request.export_format # None
     /\ Lower(x_args.request.export_format[1]) \notin {"csv", "excel", "pdf"}
     /\ ~x_args.aggregate.raised
     /\ x_args.endpoint = "/search-and-aggregate/export" =>
            (~x_args.search.raised /\ Len(x_args.search.value) > 0)) =>
        AnsweredStatus = 400

\* the models of models.py, one construction
ModelsInit == AggAtRest /\ RespInit /\ AgentInit /\ PostInit /\ FetchInit /\ ExtractInit /\ TagInit /\ SumInit /\ ExportInit /\ ModelInit /\ SearchInit

ModelsNext == ConstructOptions \/ ConstructRequest

SpecModels == ModelsInit /\ [][ModelsNext]_vars

C24_HttpsForm ==
    (m_pc = "constructed" /\ m_call.cls = "SummaryRequest") =>
        LET given == m_call.url
            wellformed == given \in
                {"https://example.com", "http://example.com", "HTTP://Example.COM/Path",
                 "Http://example.com/?next=http://b.example", "http://example.com:80/a",
                 "http://example.com:443/a", "http://example.com:8080",
                 "http:example.com", "https://ok.example/a", "http://plain.example/b"}
        IN  /\ m_out.raised <=> ~wellformed
            /\ ~m_out.raised =>
                 /\ ~StartsWith(m_out.value.url, "http://")
                 /\ StartsWith(m_out.value.url, "https://")
                 /\ Lower(SubSeq(given, 1, 5)) = "http:" =>
                      LET form == "https:" \o SubSeq(HttpUrl(given)[1], 6,
                                                     Len(HttpUrl(given)[1]))
                      IN  m_out.value.url \in {form, ReplaceFirst(form, ":443/", "/")}

\* an upper-case http URL is held as https, host in lower case
C24_Witness ==
    /\ m_pc = "constructed"
    /\ m_call.cls = "SummaryRequest"
    /\ m_call.url = "HTTP://Example.COM/Path"
    /\ ~m_out.raised
    /\ m_out.value.url = "https://example.com/Path"

\* the stages of WebSummarizerAgent.summarize, in the order of the code
StageOrder == <<"fetch", "extract", "summarize">>

\* the stages of the call's environment that do not return, by position
FailingStages == {k \in 1..3 : a_call.env[StageOrder[k]].kind # "ok"}

\* C25: the stages one summarize call invokes are a prefix of fetch, extract,
\* summarize (so in that order, each at most once) that ends with the first
\* stage that raises; the failure response then carries that stage's message
\* and error_code when the stage raised its typed error, and error_code
\* UNKNOWN_ERROR when it raised another exception.
C25_StageOrder ==
    (a_pc = "called" /\ ~a_out.out.raised) =>
        LET calls == a_out.calls
            first == CHOOSE k \in FailingStages : \A j \in FailingStages : k <= j
            st == a_call.env[StageOrder[first]]
            response == a_out.out.value
        IN  /\ Len(calls) \in 1..3
            /\ calls = SubSeq(StageOrder, 1, Len(calls))
            /\ FailingStages = {} => Len(calls) = 3
            /\ FailingStages # {} =>
                 /\ Len(calls) = first
                 /\ ~response.success
                 /\ response.data = None
                 /\ st.kind = "typed" =>
                      /\ response.error = Some(st.message)
                      /\ response.error_code = Some(st.error_code)
                 /\ st.kind = "other" => response.error_code = Some("UNKNOWN_ERROR")

\* the extractor raises its typed error after a successful fetch, in a call
\* whose summarizer would have failed too
C25_Witness ==
    /\ a_pc = "called"
    /\ a_call.entry = "summarize"
    /\ a_call.env.fetch.kind = "ok"
    /\ a_call.env.extract.kind = "typed"
    /\ a_call.env.summarize.kind = "typed"
    /\ a_out.calls = <<"fetch", "extract">>
    /\ ~a_out.out.raised
    /\ a_out.out.value.error_code = Some("INSUFFICIENT_CONTENT")
    /\ a_out.out.value.error = Some("failed with INSUFFICIENT_CONTENT")

\* WebSearcher.search, one call
SearchCallInit == AggAtRest /\ RespInit /\ AgentInit /\ PostInit /\ FetchInit /\ ExtractInit /\ TagInit /\ SumInit /\ ExportInit /\ ModelInit /\ SearchInit

SpecSearch == SearchCallInit /\ [][Search]_vars

\* C26 (as claimed): with the backend library installed, search makes one
\* backend call, and a second one, to the alternate backend, exactly when the
\* first attempt raised; it fails, with SEARCH_FAILED, exactly when both
\* raised; and the list it returns holds the results of the attempt that
\* succeeded and nothing else.
C26_OneRetry ==
    (w_pc = "searched" /\ w_args.installed) =>
        LET first_failed == w_args.first.raises # None
            second_failed == w_args.second.raises # None
            succeeded == IF first_failed THEN w_args.second ELSE w_args.first
        IN  /\ w_out.calls = IF first_failed THEN <<"api", "default">> ELSE <<"api">>
            /\ w_out.out.raised <=> (first_failed /\ second_failed)
            /\ w_out.out.raised =>
                 /\ w_out.out.exc.type = "WebSearchError"
                 /\ w_out.out.exc.error_code = "SEARCH_FAILED"
            /\ ~w_out.out.raised => w_out.out.value = ConvertedAll(succeeded.yields)

\* C27 (as claimed): summarize_url called with a well-formed URL and nothing
\* else, or with the defaults POST /summarize passes on, builds its request
\* and reaches the fetch stage, the default model name being an allowed one.
C27_DefaultsReachFetch ==
    (/\ a_pc = "called"
     /\ a_call.entry = "summarize_url"
     /\ a_call.kw \in {<<>>, SummarizeURLRequestDefaults}
     /\ HttpUrlAccepts(a_call.url)) =>
        /\ Arg(a_call.kw, "model", DefaultModel) \in allowed_models
        /\ ~a_out.out.raised
        /\ Len(a_out.calls) >= 1
        /\ a_out.calls[1] = "fetch"

\* C28: with a pool (max_workers >= 1), threads and a caller that keep
\* running and Agent invocations that return or raise, aggregate_topic
\* eventually returns its result, for the empty URL list and for lists longer
\* than the pool size as well.
C28_Returns == (max_workers >= 1) ~> (pc = "done" /\ result # None)

\* the call returned for a list longer than the pool size
C28_Witness ==
    /\ pc = "done"
    /\ result # None
    /\ max_workers = 1
    /\ Len(urls) = 2
    /\ Len(collected) = 2

\* the two sequences hold the same elements the same number of times
SameBag(a, b) ==
    /\ Len(a) = Len(b)
    /\ \A k \in 1..Len(a) :
          Cardinality({j \in 1..Len(a) : a[j] = a[k]})
              = Cardinality({j \in 1..Len(b) : b[j] = a[k]})

\* what _fetch_summaries would return had the futures completed in the order
\* of submission
InSubmissionOrder == [i \in Tasks |-> CollectOutcome(i).value]

\* the outcome of the synthesis expression in this call, if it was evaluated
SynthesisOf == IF synthesis = None THEN Returned("") ELSE synthesis[1]

\* the results aggregate_topic returns for the same URLs, Agent outcomes and
\* model answer when the futures complete in the order of submission
SubmissionOrderResults ==
    {AggregateResult(topic, urls, platforms, InSubmissionOrder, listing, SynthesisOf) :
        listing \in Listings(HashtagSet(topic))}

\* C29 (as claimed): the returned result differs from the one of any other
\* completion order at most in the order of its rows and of its collected
\* summaries: the counts, the rows and the summaries as multisets, and every
\* other field are the same.
C29_OnlyOrderDiffers ==
    pc = "done" =>
        \E other \in SubmissionOrderResults :
            /\ result[1].successful_summaries = other.successful_summaries
            /\ result[1].failed_summaries = other.failed_summaries
            /\ SameBag(result[1].data, other.data)
            /\ SameBag(result[1].summaries, other.summaries)
            /\ result[1].master_summary = other.master_summary
            /\ result[1].social_media_posts = other.social_media_posts

\* C29 (amended): successful_summaries, failed_summaries, the multiset of
\* export rows and the multiset of collected summaries are the same under
\* every completion order.
C29_CountsAndRows ==
    pc = "done" =>
        \E other \in SubmissionOrderResults :
            /\ result[1].successful_summaries = other.successful_summaries
            /\ result[1].failed_summaries = other.failed_summaries
            /\ SameBag(result[1].data, other.data)
            /\ SameBag(result[1].summaries, other.summaries)

\* a returned aggregation whose second URL completed first, one of the two a
\* failure
C29_Witness ==
    /\ pc = "done"
    /\ collected = <<2, 1>>
    /\ urls[1] # urls[2]
    /\ summaries[1].success # summaries[2].success
    /\ Len(result[1].data) = 1

\* the positions in the CSV header of the three columns of platform name
ColumnsOf(header, name) ==
    {c \in 1..Len(header) : header[c] \in {name \o "_post", name \o "_hashtags",
                                           name \o "_chars"}}

\* C30 (as claimed): in the CSV of a returned aggregation with rows, every
\* requested platform the aggregator recognises (its name in any letter case)
\* has its three columns, and in every row each of them holds the row's post,
\* hashtags or character count of that platform: none is left empty.
C30_PlatformColumnsFilled ==
    (pc = "done" /\ Len(result[1].data) > 0) =>
        LET csv == generate_csv(result[1], TRUE).value
        IN  \A k \in 1..Len(result[1].platforms) :
                LET name == result[1].platforms[k]
                IN  Lower(name) \in KnownPlatforms =>
                        /\ Cardinality(ColumnsOf(csv.header, name)) = 3
                        /\ \A r \in 1..Len(csv.cells) :
                              \A c \in ColumnsOf(csv.header, name) :
                                  csv.cells[r][c] # None

====
